---- MODULE Spec2Model ----
(***************************************************************************)
(* kz80_chip8: a static CHIP-8 -> Z80 cross-compiler.                      *)
(*                                                                         *)
(* The module models                                                       *)
(*   - chip8.rs: the instruction decoder and the ROM scanner (parse);      *)
(*   - codegen.rs: the Compiler (emitter, label table, forward references, *)
(*     runtime generator, opcode templates, fixup, image assembly);        *)
(*   - the Z80 execution of a compiled image, for the claims about what    *)
(*     the emitted code does when it runs.                                 *)
(*                                                                         *)
(* Spec    : one compilation, step by step, of a ROM drawn from Roms.      *)
(* SpecRun : the Z80 running the image compiled from a ROM of RunRoms.     *)
(* SpecProgram, SpecKey, SpecAlu, SpecBcd, SpecRet, SpecSprite, SpecCopy,  *)
(* SpecFont, SpecWait, SpecDraw : the Z80                                  *)
(*           running one unit of a returned image (the program from reset, *)
(*           one translation, or one call of a runtime routine) on inputs  *)
(*           drawn from bounded sets.                                      *)
(***************************************************************************)
EXTENDS Integers, Sequences, FiniteSets, TLC

(***************************************************************************)
(* Bounds of the model.                                                    *)
(***************************************************************************)
\* longest instruction sequence enumerated exhaustively over ScanWords
MaxInsts == 3
\* the large ROMs overshoot the 32 KiB image by 0..MaxOver bytes
MaxOver == 1
\* Z80 instructions executed in one run
MaxSteps == 90

(***************************************************************************)
(* Program constants (codegen.rs:16-32, 105).                              *)
(***************************************************************************)
CODE_START == 256
CHIP8_V0 == 32768
CHIP8_I == 32784
CHIP8_SP == 32786
CHIP8_DT == 32787
CHIP8_ST == 32788
CHIP8_KEY == 32789
CHIP8_RNG == 32790
CHIP8_STACK == 33024
DISPLAY_BUF == 33280
FONT_DATA == 33536
CHIP8_RAM == 33792
ACIA_CTRL == 128
ACIA_DATA == 129
IMAGE_SIZE == 32768
\* CHIP-8 programs load at 0x200 (chip8.rs:58)
CHIP8_BASE == 512

U16(n) == n % 65536
U8(n) == n % 256
Lo(w) == w % 256
Hi(w) == (w \div 256) % 256

(***************************************************************************)
(* chip8.rs: Instruction and its field accessors.                          *)
(***************************************************************************)
Instruction(opcode, addr) == [opcode |-> opcode, addr |-> addr]

nibbles(inst) ==
    << (inst.opcode \div 4096) % 16,
       (inst.opcode \div 256) % 16,
       (inst.opcode \div 16) % 16,
       inst.opcode % 16 >>

x(inst) == (inst.opcode \div 256) % 16
y(inst) == (inst.opcode \div 16) % 16
n(inst) == inst.opcode % 16
nn(inst) == inst.opcode % 256
nnn(inst) == inst.opcode % 4096

(***************************************************************************)
(* chip8.rs: parse.  One iteration of the while loop: ps is the loop state *)
(* [i, instructions, stopped]; stopped records the break at a self-jump.   *)
(***************************************************************************)
parse_continues(rom, ps) == ~ps.stopped /\ ps.i + 1 < Len(rom)

\* variant of parse_step: the self-jump test without the class test (any
\* opcode whose NNN is its own address stops the scan)
parse_step_any_class(rom, ps) ==
    LET opcode == rom[ps.i + 1] * 256 + rom[ps.i + 2]
        addr   == U16(CHIP8_BASE + U16(ps.i))
        inst   == Instruction(opcode, addr)
        brk    == opcode % 4096 = addr
    IN  [ i            |-> IF brk THEN ps.i ELSE ps.i + 2,
          instructions |-> Append(ps.instructions, inst),
          stopped      |-> brk ]

parse_step(rom, ps) ==
    LET opcode == rom[ps.i + 1] * 256 + rom[ps.i + 2]
        addr   == U16(CHIP8_BASE + U16(ps.i))
        inst   == Instruction(opcode, addr)
        brk    == (opcode \div 4096) % 16 = 1 /\ opcode % 4096 = addr
    IN  [ i            |-> IF brk THEN ps.i ELSE ps.i + 2,
          instructions |-> Append(ps.instructions, inst),
          stopped      |-> brk ]

parse_init == [i |-> 0, instructions |-> <<>>, stopped |-> FALSE]

RECURSIVE parse_loop(_, _)
parse_loop(rom, ps) ==
    IF parse_continues(rom, ps) THEN parse_loop(rom, parse_step(rom, ps)) ELSE ps

parse(rom) == parse_loop(rom, parse_init).instructions

(***************************************************************************)
(* codegen.rs: the Compiler.  A compiler value c is the struct             *)
(*   [code, pc, labels, forward_refs, chip8_labels, chip8_rom]             *)
(* plus the history field defs: the label names in the order label() was   *)
(* called with them (the code keeps no such record; claims about           *)
(* redefinition are stated over it).                                       *)
(***************************************************************************)
EmptyMap == [k \in {} |-> 0]
MapPut(f, key, val) == [k \in DOMAIN f \cup {key} |-> IF k = key THEN val ELSE f[k]]

new ==
    [ code         |-> <<>>,
      pc           |-> 0,
      labels       |-> EmptyMap,
      forward_refs |-> <<>>,
      chip8_labels |-> EmptyMap,
      chip8_rom    |-> <<>>,
      defs         |-> <<>> ]

\* fn emit: push the byte, pc += 1 (pc is a u16)
emit(c, byte) == [c EXCEPT !.code = Append(@, byte), !.pc = U16(@ + 1)]

\* fn emit16: low byte, then high byte
emit16(c, word) == emit(emit(c, Lo(word)), Hi(word))

\* fn label: HashMap::insert, which replaces an earlier entry of the same name
label(c, name) ==
    [c EXCEPT !.labels = MapPut(@, name, c.pc), !.defs = Append(@, name)]

\* fn emit_label_ref: record (pc, name), then a two-byte placeholder
emit_label_ref(c, name) ==
    emit16([c EXCEPT !.forward_refs = Append(@, <<c.pc, name>>)], 0)

(***************************************************************************)
(* The generators and templates below are written as the sequence of       *)
(* emitter calls the Rust code makes, each call an item:                   *)
(*   [k |-> "b",   v |-> byte]   self.emit(byte)                           *)
(*   [k |-> "def", v |-> name]   self.label(name)                          *)
(*   [k |-> "ref", v |-> name]   self.emit_label_ref(name)                 *)
(* do_item performs one call and do_items performs a sequence of them in   *)
(* order (splitting the sequence in halves keeps the evaluation shallow;   *)
(* the test on c.pc makes TLC evaluate c before it descends).              *)
(***************************************************************************)
B(byte) == <<[k |-> "b", v |-> byte]>>
W(word) == B(Lo(word)) \o B(Hi(word))
L(name) == <<[k |-> "def", v |-> name]>>
R(name) == <<[k |-> "ref", v |-> name]>>

do_item(c, it) ==
    CASE it.k = "b"   -> emit(c, it.v)
      [] it.k = "def" -> label(c, it.v)
      [] it.k = "ref" -> emit_label_ref(c, it.v)

RECURSIVE do_range(_, _, _, _)
do_range(c, its, lo, hi) ==
    IF c.pc < 0 \/ lo > hi THEN c
    ELSE IF lo = hi THEN do_item(c, its[lo])
    ELSE LET mid == (lo + hi) \div 2
         IN  do_range(do_range(c, its, lo, mid), its, mid + 1, hi)

do_items(c, its) == do_range(c, its, 1, Len(its))

(***************************************************************************)
(* codegen.rs:1016-1154: the Z80 instruction helpers.                      *)
(***************************************************************************)
jp_label(name)    == B(195) \o R(name)
jp_z_label(name)  == B(202) \o R(name)
jp_nz_label(name) == B(194) \o R(name)
jr_label(name)    == jp_label(name)
jr_z(name)        == jp_z_label(name)
jr_nz(name)       == jp_nz_label(name)
jr_c(name)        == B(218) \o R(name)
jr_nc(name)       == B(210) \o R(name)
call_label(name)  == B(205) \o R(name)

ld_hl_nn(w) == B(33) \o W(w)
ld_de_nn(w) == B(17) \o W(w)
ld_bc_nn(w) == B(1) \o W(w)
ld_hl_label(name) == B(33) \o R(name)

ld_a_n(b) == B(62) \o B(b)
ld_b_n(b) == B(6) \o B(b)
ld_d_n(b) == B(22) \o B(b)
ld_e_n(b) == B(30) \o B(b)
ld_h_n(b) == B(38) \o B(b)

ld_a_mem(addr) == B(58) \o W(addr)
ld_mem_a(addr) == B(50) \o W(addr)

add_a_n(b) == B(198) \o B(b)
sub_n(b)  == B(214) \o B(b)
and_n(b)  == B(230) \o B(b)
cp_n(b)   == B(254) \o B(b)

out_n_a(port) == B(211) \o B(port)
in_a_n(port)  == B(219) \o B(port)

\* the helpers that take no operand, by name
z80 ==
    [ ret        |-> B(201),
      ret_z      |-> B(200),
      ld_a_hl    |-> B(126),
      ld_hl_a    |-> B(119),
      ld_a_de    |-> B(26),
      ld_de_a    |-> B(18),
      ld_a_b     |-> B(120),
      ld_a_c     |-> B(121),
      ld_a_d     |-> B(122),
      ld_a_e     |-> B(123),
      ld_a_l     |-> B(125),
      ld_a_h     |-> B(124),
      ld_l_a     |-> B(111),
      ld_e_a     |-> B(95),
      ld_d_a     |-> B(87),
      ld_c_a     |-> B(79),
      ld_e_hl    |-> B(94),
      ld_d_hl    |-> B(86),
      ld_h_hl    |-> B(102),
      inc_hl     |-> B(35),
      inc_de     |-> B(19),
      inc_b      |-> B(4),
      inc_hl_ind |-> B(52),
      dec_a      |-> B(61),
      dec_b      |-> B(5),
      dec_d      |-> B(21),
      dec_e      |-> B(29),
      dec_hl     |-> B(43),
      dec_bc     |-> B(11),
      add_hl_de  |-> B(25),
      add_hl_hl  |-> B(41),
      add_a_hl   |-> B(134),
      sbc_hl_de  |-> B(237) \o B(82),
      sub_hl     |-> B(150),
      and_a_e    |-> B(163),
      and_hl     |-> B(166),
      or_a       |-> B(183),
      or_c       |-> B(177),
      or_hl      |-> B(182),
      xor_a      |-> B(175),
      xor_h      |-> B(172),
      xor_hl     |-> B(174),
      cp_hl      |-> B(190),
      push_af    |-> B(245),
      push_hl    |-> B(229),
      push_de    |-> B(213),
      pop_af     |-> B(241),
      pop_hl     |-> B(225),
      pop_de     |-> B(209),
      ex_de_hl   |-> B(235) ]

(***************************************************************************)
(* Label names: format!("c8_{:03X}", addr) and the per-DRW local labels.   *)
(* {:03X} is upper-case hexadecimal padded to at least three digits.       *)
(***************************************************************************)
HexDigit == <<"0", "1", "2", "3", "4", "5", "6", "7",
              "8", "9", "A", "B", "C", "D", "E", "F">>
Hex03(v) ==
    LET d3 == HexDigit[((v \div 256) % 16) + 1] \o HexDigit[((v \div 16) % 16) + 1]
                 \o HexDigit[(v % 16) + 1]
    IN  IF v < 4096 THEN d3 ELSE HexDigit[((v \div 4096) % 16) + 1] \o d3
c8_label(addr) == "c8_" \o Hex03(addr)
not_font_label(inst) == "draw_not_font_" \o Hex03(inst.addr)
have_sprite_label(inst) == "draw_have_sprite_" \o Hex03(inst.addr)

(***************************************************************************)
(* codegen.rs:120-129 generate_header; 131-172 generate_init.              *)
(***************************************************************************)
\* variant of generate_header: pads while pc <= CODE_START
generate_header_pad_one_more(c) ==
    LET c1  == emit16(emit(c, 195), CODE_START)
        pad == IF c1.pc <= CODE_START THEN CODE_START + 1 - c1.pc ELSE 0
    IN  do_items(c1, [j \in 1..pad |-> [k |-> "b", v |-> 0]])

generate_header(c) ==
    LET c1  == emit16(emit(c, 195), CODE_START)
        pad == IF c1.pc < CODE_START THEN CODE_START - c1.pc ELSE 0
    IN  do_items(c1, [j \in 1..pad |-> [k |-> "b", v |-> 0]])

\* codegen.rs:132-171
init_items ==
       L("init") \o B(49) \o W(0) \o call_label("acia_init")
    \o ld_hl_nn(CHIP8_V0) \o ld_bc_nn(32) \o L("init_clear") \o z80.xor_a
    \o z80.ld_hl_a \o z80.inc_hl \o z80.dec_bc \o z80.ld_a_b
    \o z80.or_c \o jr_nz("init_clear") \o ld_hl_nn(CHIP8_RNG) \o ld_a_n(172)
    \o z80.ld_hl_a \o z80.inc_hl \o ld_a_n(225) \o z80.ld_hl_a
    \o call_label("cls") \o call_label("copy_font") \o call_label("print_banner") \o jp_label("main")


generate_init(c) == do_items(c, init_items)

(***************************************************************************)
(* codegen.rs:174-429 generate_runtime, one definition per routine.        *)
(***************************************************************************)
\* codegen.rs:176-181
rt_acia_init ==
       L("acia_init") \o ld_a_n(3) \o out_n_a(ACIA_CTRL) \o ld_a_n(21)
    \o out_n_a(ACIA_CTRL) \o z80.ret

\* codegen.rs:184-192
rt_print_char ==
       L("print_char") \o z80.push_af \o L("print_wait") \o in_a_n(ACIA_CTRL)
    \o B(230) \o B(2) \o jr_z("print_wait") \o z80.pop_af
    \o out_n_a(ACIA_DATA) \o z80.ret

\* codegen.rs:195-203
rt_print_banner ==
       L("print_banner") \o ld_hl_label("banner_str") \o L("print_str_loop") \o z80.ld_a_hl
    \o z80.or_a \o z80.ret_z \o call_label("print_char") \o z80.inc_hl
    \o jr_label("print_str_loop")

\* codegen.rs:206-210
rt_banner_str ==
       L("banner_str")
    \o B(67) \o B(72) \o B(73) \o B(80) \o B(45) \o B(56) \o B(32) \o B(111) \o B(110) \o B(32) \o B(90) \o B(56) \o B(48) \o B(13) \o B(10)
    \o B(0)

\* codegen.rs:213-225
rt_cls ==
       L("cls") \o ld_hl_nn(DISPLAY_BUF) \o ld_bc_nn(256) \o L("cls_loop")
    \o z80.xor_a \o z80.ld_hl_a \o z80.inc_hl \o z80.dec_bc
    \o z80.ld_a_b \o z80.or_c \o jr_nz("cls_loop") \o jp_label("refresh_display")

\* codegen.rs:228-241
rt_copy_font ==
       L("copy_font") \o ld_hl_label("font_rom") \o ld_de_nn(FONT_DATA) \o ld_bc_nn(80)
    \o L("copy_font_loop") \o z80.ld_a_hl \o z80.ld_de_a \o z80.inc_hl
    \o z80.inc_de \o z80.dec_bc \o z80.ld_a_b \o z80.or_c
    \o jr_nz("copy_font_loop") \o z80.ret

\* codegen.rs:244-276
rt_font_rom ==
       L("font_rom") \o B(240) \o B(144) \o B(144)
    \o B(144) \o B(240) \o B(32) \o B(96)
    \o B(32) \o B(32) \o B(112) \o B(240)
    \o B(16) \o B(240) \o B(128) \o B(240)
    \o B(240) \o B(16) \o B(240) \o B(16)
    \o B(240) \o B(144) \o B(144) \o B(240)
    \o B(16) \o B(16) \o B(240) \o B(128)
    \o B(240) \o B(16) \o B(240) \o B(240)
    \o B(128) \o B(240) \o B(144) \o B(240)
    \o B(240) \o B(16) \o B(32) \o B(64)
    \o B(64) \o B(240) \o B(144) \o B(240)
    \o B(144) \o B(240) \o B(240) \o B(144)
    \o B(240) \o B(16) \o B(240) \o B(240)
    \o B(144) \o B(240) \o B(144) \o B(144)
    \o B(224) \o B(144) \o B(224) \o B(144)
    \o B(224) \o B(240) \o B(128) \o B(128)
    \o B(128) \o B(240) \o B(224) \o B(144)
    \o B(144) \o B(144) \o B(224) \o B(240)
    \o B(128) \o B(240) \o B(128) \o B(240)
    \o B(240) \o B(128) \o B(240) \o B(128)
    \o B(128)

\* codegen.rs:279-302
rt_rng ==
       L("rng") \o ld_hl_nn(CHIP8_RNG) \o z80.ld_a_hl \o z80.inc_hl
    \o z80.ld_h_hl \o z80.ld_l_a \o z80.add_hl_hl \o B(203)
    \o B(21) \o B(203) \o B(20) \o z80.ld_a_l
    \o z80.xor_h \o z80.ld_l_a \o z80.push_hl \o ld_hl_nn(CHIP8_RNG)
    \o z80.pop_de \o z80.ld_a_e \o z80.ld_hl_a \o z80.inc_hl
    \o z80.ld_a_d \o z80.ld_hl_a \o z80.ld_a_e \o z80.ret

\* variant of rt_get_key: the upper bound of a..f is CP 'f' instead of CP 'f'+1
rt_get_key_f_excluded ==
       L("get_key") \o in_a_n(ACIA_CTRL) \o B(230) \o B(1)
    \o z80.ret_z \o in_a_n(ACIA_DATA) \o cp_n(48) \o jr_c("get_key_alpha")
    \o cp_n(58) \o jr_nc("get_key_alpha") \o sub_n(48) \o z80.ret
    \o L("get_key_alpha") \o cp_n(97) \o jr_c("get_key_upper") \o cp_n(102)
    \o jr_nc("get_key_none") \o sub_n(87) \o z80.ret \o L("get_key_upper")
    \o cp_n(65) \o jr_c("get_key_none") \o cp_n(71) \o jr_nc("get_key_none")
    \o sub_n(55) \o z80.ret \o L("get_key_none") \o ld_a_n(255)
    \o z80.ret

\* codegen.rs:305-333
rt_get_key ==
       L("get_key") \o in_a_n(ACIA_CTRL) \o B(230) \o B(1)
    \o z80.ret_z \o in_a_n(ACIA_DATA) \o cp_n(48) \o jr_c("get_key_alpha")
    \o cp_n(58) \o jr_nc("get_key_alpha") \o sub_n(48) \o z80.ret
    \o L("get_key_alpha") \o cp_n(97) \o jr_c("get_key_upper") \o cp_n(103)
    \o jr_nc("get_key_none") \o sub_n(87) \o z80.ret \o L("get_key_upper")
    \o cp_n(65) \o jr_c("get_key_none") \o cp_n(71) \o jr_nc("get_key_none")
    \o sub_n(55) \o z80.ret \o L("get_key_none") \o ld_a_n(255)
    \o z80.ret

\* codegen.rs:336-340
rt_wait_key ==
       L("wait_key") \o call_label("get_key") \o cp_n(255) \o jr_z("wait_key")
    \o z80.ret

\* variant of rt_draw_sprite: the collisions are not OR-folded across rows
rt_draw_sprite_last_row ==
       L("draw_sprite") \o z80.xor_a \o z80.ld_c_a \o L("draw_row")
    \o z80.ld_a_hl \o z80.push_hl \o z80.push_de \o z80.ex_de_hl
    \o z80.ld_e_a \o z80.ld_a_hl \o z80.push_af \o z80.ld_a_e
    \o z80.xor_hl \o z80.ld_hl_a \o z80.pop_af \o z80.and_a_e
    \o z80.ld_c_a \o z80.pop_de \o z80.pop_hl
    \o z80.inc_hl \o z80.push_hl \o ld_hl_nn(8) \o z80.add_hl_de
    \o z80.ex_de_hl \o z80.pop_hl \o z80.dec_b \o jr_nz("draw_row")
    \o z80.ld_a_c \o z80.or_a \o z80.ret_z \o ld_a_n(1)
    \o z80.ret

\* codegen.rs:344-380
rt_draw_sprite ==
       L("draw_sprite") \o z80.xor_a \o z80.ld_c_a \o L("draw_row")
    \o z80.ld_a_hl \o z80.push_hl \o z80.push_de \o z80.ex_de_hl
    \o z80.ld_e_a \o z80.ld_a_hl \o z80.push_af \o z80.ld_a_e
    \o z80.xor_hl \o z80.ld_hl_a \o z80.pop_af \o z80.and_a_e
    \o z80.or_c \o z80.ld_c_a \o z80.pop_de \o z80.pop_hl
    \o z80.inc_hl \o z80.push_hl \o ld_hl_nn(8) \o z80.add_hl_de
    \o z80.ex_de_hl \o z80.pop_hl \o z80.dec_b \o jr_nz("draw_row")
    \o z80.ld_a_c \o z80.or_a \o z80.ret_z \o ld_a_n(1)
    \o z80.ret

\* codegen.rs:383-428
rt_refresh_display ==
       L("refresh_display") \o ld_a_n(27) \o call_label("print_char") \o ld_a_n(91)
    \o call_label("print_char") \o ld_a_n(50) \o call_label("print_char") \o ld_a_n(59)
    \o call_label("print_char") \o ld_a_n(49) \o call_label("print_char") \o ld_a_n(72)
    \o call_label("print_char") \o ld_hl_nn(DISPLAY_BUF) \o ld_d_n(32) \o L("refresh_row")
    \o ld_e_n(8) \o L("refresh_byte") \o z80.ld_a_hl \o ld_b_n(8)
    \o L("refresh_bit") \o B(203) \o B(7) \o z80.push_af
    \o jr_nc("refresh_space") \o ld_a_n(35) \o jr_label("refresh_out") \o L("refresh_space")
    \o ld_a_n(32) \o L("refresh_out") \o call_label("print_char") \o z80.pop_af
    \o z80.dec_b \o jr_nz("refresh_bit") \o z80.inc_hl \o z80.dec_e
    \o jr_nz("refresh_byte") \o ld_a_n(13) \o call_label("print_char") \o ld_a_n(10)
    \o call_label("print_char") \o z80.dec_d \o jr_nz("refresh_row") \o z80.ret


runtime_items ==
       rt_acia_init \o rt_print_char \o rt_print_banner \o rt_banner_str
    \o rt_cls \o rt_copy_font \o rt_font_rom \o rt_rng
    \o rt_get_key \o rt_wait_key \o rt_draw_sprite \o rt_refresh_display

generate_runtime(c) == do_items(c, runtime_items)

(***************************************************************************)
(* codegen.rs:431-979 compile_instruction: the emitter calls of each match *)
(* arm (the t_ definitions), then the match itself.                        *)
(***************************************************************************)
\* codegen.rs:437-437
t_cls ==
       call_label("cls")

\* codegen.rs:443-459
t_ret ==
       ld_hl_nn(CHIP8_SP) \o z80.dec_hl \o z80.ld_a_hl \o z80.dec_a
    \o z80.ld_hl_a \o z80.ld_l_a \o ld_h_n(0) \o z80.add_hl_hl
    \o ld_de_nn(CHIP8_STACK) \o z80.add_hl_de \o z80.ld_e_hl \o z80.inc_hl
    \o z80.ld_d_hl \o z80.push_de \o z80.ret

\* codegen.rs:483-498
t_call_pre(inst) ==
       ld_hl_nn(CHIP8_SP) \o z80.ld_a_hl \o z80.ld_l_a \o ld_h_n(0)
    \o z80.add_hl_hl \o ld_de_nn(CHIP8_STACK) \o z80.add_hl_de \o ld_a_n(Lo(U16(inst.addr + 2)))
    \o z80.ld_hl_a \o z80.inc_hl \o ld_a_n(Hi(U16(inst.addr + 2))) \o z80.ld_hl_a
    \o ld_hl_nn(CHIP8_SP) \o z80.inc_hl_ind

\* codegen.rs:512-513
t_se_imm(inst) ==
       ld_a_mem(CHIP8_V0 + x(inst)) \o cp_n(nn(inst))

\* codegen.rs:527-528
t_sne_imm(inst) ==
       ld_a_mem(CHIP8_V0 + x(inst)) \o cp_n(nn(inst))

\* codegen.rs:539-541
t_se_reg(inst) ==
       ld_a_mem(CHIP8_V0 + x(inst)) \o ld_hl_nn(CHIP8_V0 + y(inst)) \o z80.cp_hl

\* codegen.rs:552-553
t_ld_imm(inst) ==
       ld_a_n(nn(inst)) \o ld_mem_a(CHIP8_V0 + x(inst))

\* codegen.rs:560-562
t_add_imm(inst) ==
       ld_a_mem(CHIP8_V0 + x(inst)) \o add_a_n(nn(inst)) \o ld_mem_a(CHIP8_V0 + x(inst))

\* codegen.rs:569-570
t_ld_reg(inst) ==
       ld_a_mem(CHIP8_V0 + y(inst)) \o ld_mem_a(CHIP8_V0 + x(inst))

\* codegen.rs:577-580
t_or(inst) ==
       ld_a_mem(CHIP8_V0 + x(inst)) \o ld_hl_nn(CHIP8_V0 + y(inst)) \o z80.or_hl \o ld_mem_a(CHIP8_V0 + x(inst))

\* codegen.rs:587-590
t_and(inst) ==
       ld_a_mem(CHIP8_V0 + x(inst)) \o ld_hl_nn(CHIP8_V0 + y(inst)) \o z80.and_hl \o ld_mem_a(CHIP8_V0 + x(inst))

\* codegen.rs:597-600
t_xor(inst) ==
       ld_a_mem(CHIP8_V0 + x(inst)) \o ld_hl_nn(CHIP8_V0 + y(inst)) \o z80.xor_hl \o ld_mem_a(CHIP8_V0 + x(inst))

\* codegen.rs:607-614
t_add_reg(inst) ==
       ld_a_mem(CHIP8_V0 + x(inst)) \o ld_hl_nn(CHIP8_V0 + y(inst)) \o z80.add_a_hl \o ld_mem_a(CHIP8_V0 + x(inst))
    \o ld_a_n(0) \o B(206) \o B(0) \o ld_mem_a(CHIP8_V0 + 15)

\* codegen.rs:621-630
t_sub(inst) ==
       ld_a_mem(CHIP8_V0 + x(inst)) \o ld_hl_nn(CHIP8_V0 + y(inst)) \o z80.sub_hl \o ld_mem_a(CHIP8_V0 + x(inst))
    \o ld_a_n(1) \o jr_nc("no_borrow_8xy5") \o z80.xor_a \o L("no_borrow_8xy5")
    \o ld_mem_a(CHIP8_V0 + 15)

\* codegen.rs:636-642
t_shr(inst) ==
       ld_a_mem(CHIP8_V0 + x(inst)) \o B(203) \o B(63) \o ld_mem_a(CHIP8_V0 + x(inst))
    \o ld_a_n(0) \o B(206) \o B(0) \o ld_mem_a(CHIP8_V0 + 15)

\* variant of t_subn: the operands are not swapped (Vx - Vy, as 8XY5)
t_subn_as_sub(inst) ==
       ld_a_mem(CHIP8_V0 + x(inst)) \o ld_hl_nn(CHIP8_V0 + y(inst)) \o z80.sub_hl \o ld_mem_a(CHIP8_V0 + x(inst))
    \o ld_a_n(1) \o jr_nc("no_borrow_8xy7") \o z80.xor_a \o L("no_borrow_8xy7")
    \o ld_mem_a(CHIP8_V0 + 15)

\* codegen.rs:649-657
t_subn(inst) ==
       ld_a_mem(CHIP8_V0 + y(inst)) \o ld_hl_nn(CHIP8_V0 + x(inst)) \o z80.sub_hl \o ld_mem_a(CHIP8_V0 + x(inst))
    \o ld_a_n(1) \o jr_nc("no_borrow_8xy7") \o z80.xor_a \o L("no_borrow_8xy7")
    \o ld_mem_a(CHIP8_V0 + 15)

\* codegen.rs:663-669
t_shl(inst) ==
       ld_a_mem(CHIP8_V0 + x(inst)) \o B(203) \o B(39) \o ld_mem_a(CHIP8_V0 + x(inst))
    \o ld_a_n(0) \o B(206) \o B(0) \o ld_mem_a(CHIP8_V0 + 15)

\* codegen.rs:676-678
t_sne_reg(inst) ==
       ld_a_mem(CHIP8_V0 + x(inst)) \o ld_hl_nn(CHIP8_V0 + y(inst)) \o z80.cp_hl

\* variant of t_ld_i: only the low byte of NNN is stored
t_ld_i_low_byte(inst) ==
       ld_hl_nn(nnn(inst)) \o ld_de_nn(CHIP8_I) \o z80.ld_a_l \o z80.ld_de_a

\* codegen.rs:688-694
t_ld_i(inst) ==
       ld_hl_nn(nnn(inst)) \o ld_de_nn(CHIP8_I) \o z80.ld_a_l \o z80.ld_de_a
    \o z80.inc_de \o z80.ld_a_h \o z80.ld_de_a

\* codegen.rs:700-708
t_jp_v0(inst) ==
       ld_a_mem(CHIP8_V0) \o z80.ld_l_a \o ld_h_n(0) \o ld_de_nn(nnn(inst))
    \o z80.add_hl_de \o z80.push_hl \o z80.ret

\* codegen.rs:715-717
t_rnd(inst) ==
       call_label("rng") \o and_n(nn(inst)) \o ld_mem_a(CHIP8_V0 + x(inst))

\* codegen.rs:728-753
t_drw_a(inst) ==
       ld_a_mem(CHIP8_V0 + y(inst)) \o B(230) \o B(31) \o z80.ld_l_a
    \o ld_h_n(0) \o z80.add_hl_hl \o z80.add_hl_hl \o z80.add_hl_hl
    \o ld_a_mem(CHIP8_V0 + x(inst)) \o B(230) \o B(63) \o B(203)
    \o B(63) \o B(203) \o B(63) \o B(203)
    \o B(63) \o z80.ld_e_a \o ld_d_n(0) \o z80.add_hl_de
    \o ld_de_nn(DISPLAY_BUF) \o z80.add_hl_de \o z80.push_hl \o ld_hl_nn(CHIP8_I)
    \o z80.ld_e_hl \o z80.inc_hl \o z80.ld_d_hl

\* codegen.rs:758-787
t_drw_b(inst) ==
       z80.ld_a_d \o z80.or_a \o jr_nz(not_font_label(inst)) \o z80.ld_a_e
    \o cp_n(80) \o jr_nc(not_font_label(inst)) \o ld_hl_nn(FONT_DATA) \o z80.add_hl_de
    \o jr_label(have_sprite_label(inst)) \o L(not_font_label(inst)) \o ld_hl_nn(512) \o z80.ex_de_hl
    \o z80.or_a \o z80.sbc_hl_de \o z80.ex_de_hl \o ld_hl_label("chip8_rom_data")
    \o z80.add_hl_de \o L(have_sprite_label(inst)) \o z80.pop_de \o ld_b_n(n(inst))
    \o call_label("draw_sprite") \o ld_mem_a(CHIP8_V0 + 15) \o call_label("refresh_display")

\* codegen.rs:793-795
t_skp(inst) ==
       call_label("get_key") \o ld_hl_nn(CHIP8_V0 + x(inst)) \o z80.cp_hl

\* codegen.rs:805-807
t_sknp(inst) ==
       call_label("get_key") \o ld_hl_nn(CHIP8_V0 + x(inst)) \o z80.cp_hl

\* codegen.rs:817-818
t_ld_vx_dt(inst) ==
       ld_a_mem(CHIP8_DT) \o ld_mem_a(CHIP8_V0 + x(inst))

\* codegen.rs:824-825
t_ld_vx_k(inst) ==
       call_label("wait_key") \o ld_mem_a(CHIP8_V0 + x(inst))

\* codegen.rs:831-832
t_ld_dt(inst) ==
       ld_a_mem(CHIP8_V0 + x(inst)) \o ld_mem_a(CHIP8_DT)

\* codegen.rs:838-839
t_ld_st(inst) ==
       ld_a_mem(CHIP8_V0 + x(inst)) \o ld_mem_a(CHIP8_ST)

\* codegen.rs:845-861
t_add_i(inst) ==
       ld_a_mem(CHIP8_V0 + x(inst)) \o z80.ld_l_a \o ld_h_n(0) \o ld_de_nn(CHIP8_I)
    \o z80.push_de \o z80.ld_a_de \o z80.ld_e_a \o z80.inc_de
    \o z80.ld_a_de \o z80.ld_d_a \o z80.add_hl_de \o z80.pop_de
    \o z80.ld_a_l \o z80.ld_de_a \o z80.inc_de \o z80.ld_a_h
    \o z80.ld_de_a

\* variant of t_ld_f: the digit is masked with 0x1F
t_ld_f_and_1f(inst) ==
       ld_a_mem(CHIP8_V0 + x(inst)) \o B(230) \o B(31) \o z80.ld_l_a
    \o ld_h_n(0) \o z80.add_hl_hl \o z80.add_hl_hl \o z80.ld_e_a
    \o ld_d_n(0) \o z80.add_hl_de \o ld_de_nn(CHIP8_I) \o z80.ld_a_l
    \o z80.ld_de_a \o z80.inc_de \o z80.ld_a_h \o z80.ld_de_a

\* codegen.rs:867-883
t_ld_f(inst) ==
       ld_a_mem(CHIP8_V0 + x(inst)) \o B(230) \o B(15) \o z80.ld_l_a
    \o ld_h_n(0) \o z80.add_hl_hl \o z80.add_hl_hl \o z80.ld_e_a
    \o ld_d_n(0) \o z80.add_hl_de \o ld_de_nn(CHIP8_I) \o z80.ld_a_l
    \o z80.ld_de_a \o z80.inc_de \o z80.ld_a_h \o z80.ld_de_a

\* variant of t_bcd: the hundreds loop compares with 101 instead of 100
t_bcd_cp_101(inst) ==
       ld_a_mem(CHIP8_V0 + x(inst)) \o ld_hl_nn(CHIP8_I) \o z80.ld_e_hl \o z80.inc_hl
    \o z80.ld_d_hl \o ld_hl_nn(CHIP8_RAM - 512) \o z80.add_hl_de \o ld_b_n(0)
    \o L("bcd_hundreds") \o cp_n(101) \o jr_c("bcd_tens") \o sub_n(100)
    \o z80.inc_b \o jr_label("bcd_hundreds") \o L("bcd_tens") \o z80.push_af
    \o z80.ld_a_b \o z80.ld_hl_a \o z80.inc_hl \o z80.pop_af
    \o ld_b_n(0) \o L("bcd_tens_loop") \o cp_n(10) \o jr_c("bcd_ones")
    \o sub_n(10) \o z80.inc_b \o jr_label("bcd_tens_loop") \o L("bcd_ones")
    \o z80.push_af \o z80.ld_a_b \o z80.ld_hl_a \o z80.inc_hl
    \o z80.pop_af \o z80.ld_hl_a

\* codegen.rs:889-927
t_bcd(inst) ==
       ld_a_mem(CHIP8_V0 + x(inst)) \o ld_hl_nn(CHIP8_I) \o z80.ld_e_hl \o z80.inc_hl
    \o z80.ld_d_hl \o ld_hl_nn(CHIP8_RAM - 512) \o z80.add_hl_de \o ld_b_n(0)
    \o L("bcd_hundreds") \o cp_n(100) \o jr_c("bcd_tens") \o sub_n(100)
    \o z80.inc_b \o jr_label("bcd_hundreds") \o L("bcd_tens") \o z80.push_af
    \o z80.ld_a_b \o z80.ld_hl_a \o z80.inc_hl \o z80.pop_af
    \o ld_b_n(0) \o L("bcd_tens_loop") \o cp_n(10) \o jr_c("bcd_ones")
    \o sub_n(10) \o z80.inc_b \o jr_label("bcd_tens_loop") \o L("bcd_ones")
    \o z80.push_af \o z80.ld_a_b \o z80.ld_hl_a \o z80.inc_hl
    \o z80.pop_af \o z80.ld_hl_a

\* codegen.rs:934-949
t_store(inst) ==
       ld_hl_nn(CHIP8_I) \o z80.ld_e_hl \o z80.inc_hl \o z80.ld_d_hl
    \o ld_hl_nn(CHIP8_RAM - 512) \o z80.add_hl_de \o z80.ex_de_hl \o ld_hl_nn(CHIP8_V0)
    \o ld_b_n(x(inst) + 1) \o L("store_regs") \o z80.ld_a_hl \o z80.ld_de_a
    \o z80.inc_hl \o z80.inc_de \o z80.dec_b \o jr_nz("store_regs")

\* variant of t_load: the source starts one byte late
t_load_off_by_one(inst) ==
       ld_hl_nn(CHIP8_I) \o z80.ld_e_hl \o z80.inc_hl \o z80.ld_d_hl
    \o ld_hl_nn(CHIP8_RAM - 511) \o z80.add_hl_de \o ld_de_nn(CHIP8_V0) \o ld_b_n(x(inst) + 1)
    \o L("load_regs") \o z80.ld_a_hl \o z80.ld_de_a \o z80.inc_hl
    \o z80.inc_de \o z80.dec_b \o jr_nz("load_regs")

\* codegen.rs:956-970
t_load(inst) ==
       ld_hl_nn(CHIP8_I) \o z80.ld_e_hl \o z80.inc_hl \o z80.ld_d_hl
    \o ld_hl_nn(CHIP8_RAM - 512) \o z80.add_hl_de \o ld_de_nn(CHIP8_V0) \o ld_b_n(x(inst) + 1)
    \o L("load_regs") \o z80.ld_a_hl \o z80.ld_de_a \o z80.inc_hl
    \o z80.inc_de \o z80.dec_b \o jr_nz("load_regs")


\* the result of compile_instruction's match: the calls made, and the Err
\* string it returns ("" for Ok(()))
Emitted(its) == [items |-> its, err |-> ""]

\* variant of skip_branch: the branch goes to the next instruction (addr + 2)
skip_branch_to_next(inst, c8l, jp) ==
    LET next_addr == U16(inst.addr + 2)
    IN  IF next_addr \in DOMAIN c8l
        THEN B(jp) \o R(c8l[next_addr])
        ELSE <<>>

\* the "if let Some(label) = self.chip8_labels.get(&next_addr)" of the skips
skip_branch(inst, c8l, jp) ==
    LET next_addr == U16(inst.addr + 4)
    IN  IF next_addr \in DOMAIN c8l
        THEN B(jp) \o R(c8l[next_addr])
        ELSE <<>>

\* codegen.rs:467-475
t_jp(inst, c8l) ==
    IF nnn(inst) \in DOMAIN c8l
    THEN Emitted(jp_label(c8l[nnn(inst)]))
    ELSE [items |-> <<>>, err |-> "Jump to unknown address " \o Hex03(nnn(inst))]

\* variant of t_call: an unknown target drops the branch, as the skips do
t_call_drop_branch(inst, c8l) ==
    IF nnn(inst) \in DOMAIN c8l
    THEN Emitted(t_call_pre(inst) \o jp_label(c8l[nnn(inst)]))
    ELSE Emitted(t_call_pre(inst))

\* codegen.rs:477-505
t_call(inst, c8l) ==
    IF nnn(inst) \in DOMAIN c8l
    THEN Emitted(t_call_pre(inst) \o jp_label(c8l[nnn(inst)]))
    ELSE [items |-> t_call_pre(inst),
          err   |-> "Call to unknown address " \o Hex03(nnn(inst))]

\* codegen.rs:720-788
t_drw(inst) == t_drw_a(inst) \o t_drw_b(inst)

template(inst, c8l) ==
    LET n0 == nibbles(inst)[1]
        n1 == nibbles(inst)[2]
        n2 == nibbles(inst)[3]
        n3 == nibbles(inst)[4]
    IN  IF n0 = 0 /\ n1 = 0 /\ n2 = 14 /\ n3 = 0 THEN Emitted(t_cls)
        ELSE IF n0 = 0 /\ n1 = 0 /\ n2 = 14 /\ n3 = 14 THEN Emitted(t_ret)
        ELSE IF n0 = 0 THEN Emitted(<<>>)
        ELSE IF n0 = 1 THEN t_jp(inst, c8l)
        ELSE IF n0 = 2 THEN t_call(inst, c8l)
        ELSE IF n0 = 3 THEN Emitted(t_se_imm(inst) \o skip_branch(inst, c8l, 202))
        ELSE IF n0 = 4 THEN Emitted(t_sne_imm(inst) \o skip_branch(inst, c8l, 194))
        ELSE IF n0 = 5 /\ n3 = 0 THEN Emitted(t_se_reg(inst) \o skip_branch(inst, c8l, 202))
        ELSE IF n0 = 6 THEN Emitted(t_ld_imm(inst))
        ELSE IF n0 = 7 THEN Emitted(t_add_imm(inst))
        ELSE IF n0 = 8 /\ n3 = 0 THEN Emitted(t_ld_reg(inst))
        ELSE IF n0 = 8 /\ n3 = 1 THEN Emitted(t_or(inst))
        ELSE IF n0 = 8 /\ n3 = 2 THEN Emitted(t_and(inst))
        ELSE IF n0 = 8 /\ n3 = 3 THEN Emitted(t_xor(inst))
        ELSE IF n0 = 8 /\ n3 = 4 THEN Emitted(t_add_reg(inst))
        ELSE IF n0 = 8 /\ n3 = 5 THEN Emitted(t_sub(inst))
        ELSE IF n0 = 8 /\ n3 = 6 THEN Emitted(t_shr(inst))
        ELSE IF n0 = 8 /\ n3 = 7 THEN Emitted(t_subn(inst))
        ELSE IF n0 = 8 /\ n3 = 14 THEN Emitted(t_shl(inst))
        ELSE IF n0 = 9 /\ n3 = 0 THEN Emitted(t_sne_reg(inst) \o skip_branch(inst, c8l, 194))
        ELSE IF n0 = 10 THEN Emitted(t_ld_i(inst))
        ELSE IF n0 = 11 THEN Emitted(t_jp_v0(inst))
        ELSE IF n0 = 12 THEN Emitted(t_rnd(inst))
        ELSE IF n0 = 13 THEN Emitted(t_drw(inst))
        ELSE IF n0 = 14 /\ n2 = 9 /\ n3 = 14 THEN Emitted(t_skp(inst) \o skip_branch(inst, c8l, 202))
        ELSE IF n0 = 14 /\ n2 = 10 /\ n3 = 1 THEN Emitted(t_sknp(inst) \o skip_branch(inst, c8l, 194))
        ELSE IF n0 = 15 /\ n2 = 0 /\ n3 = 7 THEN Emitted(t_ld_vx_dt(inst))
        ELSE IF n0 = 15 /\ n2 = 0 /\ n3 = 10 THEN Emitted(t_ld_vx_k(inst))
        ELSE IF n0 = 15 /\ n2 = 1 /\ n3 = 5 THEN Emitted(t_ld_dt(inst))
        ELSE IF n0 = 15 /\ n2 = 1 /\ n3 = 8 THEN Emitted(t_ld_st(inst))
        ELSE IF n0 = 15 /\ n2 = 1 /\ n3 = 14 THEN Emitted(t_add_i(inst))
        ELSE IF n0 = 15 /\ n2 = 2 /\ n3 = 9 THEN Emitted(t_ld_f(inst))
        ELSE IF n0 = 15 /\ n2 = 3 /\ n3 = 3 THEN Emitted(t_bcd(inst))
        ELSE IF n0 = 15 /\ n2 = 5 /\ n3 = 5 THEN Emitted(t_store(inst))
        ELSE IF n0 = 15 /\ n2 = 6 /\ n3 = 5 THEN Emitted(t_load(inst))
        ELSE Emitted(<<>>)

\* compile_instruction: returns the compiler after the calls, and the Result
compile_instruction(c, inst) ==
    LET t == template(inst, c.chip8_labels)
    IN  [c |-> do_items(c, t.items), err |-> t.err]

(***************************************************************************)
(* codegen.rs:55-118 compile, phase by phase.                              *)
(***************************************************************************)
\* 57: self.chip8_rom = rom.to_vec()
store_rom(c, rom) == [c EXCEPT !.chip8_rom = rom]

\* 63-66: first pass, chip8_labels.insert(inst.addr, "c8_AAA") per instruction
first_pass(c, insts) ==
    [c EXCEPT !.chip8_labels =
        [a \in DOMAIN c.chip8_labels \cup {insts[j].addr : j \in DOMAIN insts}
            |-> IF a \in {insts[j].addr : j \in DOMAIN insts}
                THEN c8_label(a) ELSE c.chip8_labels[a]]]

\* variant of main_entry: always JP c8_200
main_entry_always_first(c, insts) ==
    do_items(c, L("main") \o jp_label(c8_label(CHIP8_BASE)))

\* variant of main_entry: always JP halt
main_entry_always_halt(c, insts) ==
    do_items(c, L("main") \o jp_label("halt"))

\* 74-80: label main, then JP to the first instruction or to halt
main_entry(c, insts) ==
    do_items(c, L("main") \o (IF insts # <<>> THEN jp_label(c8_label(CHIP8_BASE))
                                              ELSE jp_label("halt")))

\* variant of compile_one: the label is defined after the translation
compile_one_label_after(c, inst) ==
    LET r == compile_instruction(c, inst)
    IN  [c |-> label(r.c, c8_label(inst.addr)), err |-> r.err]

\* 84-86: one iteration of the compile loop
compile_one(c, inst) == compile_instruction(label(c, c8_label(inst.addr)), inst)

\* 90-92
generate_halt(c) == do_items(c, L("halt") \o B(118) \o jp_label("halt"))

\* variant of embed_rom: only the whole 16-bit words of the ROM are emitted
embed_rom_words_only(c) ==
    LET c1  == label(c, "chip8_rom_data")
        len == 2 * (Len(c.chip8_rom) \div 2)
    IN  [c1 EXCEPT !.code = @ \o SubSeq(c.chip8_rom, 1, len), !.pc = U16(@ + len)]

\* 96-99: label chip8_rom_data, then emit every byte of the ROM copy
embed_rom(c) ==
    LET c1 == label(c, "chip8_rom_data")
    IN  [c1 EXCEPT !.code = @ \o c.chip8_rom, !.pc = U16(@ + Len(c.chip8_rom))]

\* variant of patch_ref: the offset is stored high byte first
patch_ref_big_endian(code, ref, labels) ==
    [code EXCEPT ![ref[1] + 1] = Hi(labels[ref[2]]),
                 ![ref[1] + 2] = Lo(labels[ref[2]])]

\* codegen.rs:1005-1014 resolve_refs.  patch_ref is one iteration of the loop
\* for a defined name.
patch_ref(code, ref, labels) ==
    [code EXCEPT ![ref[1] + 1] = Lo(labels[ref[2]]),
                 ![ref[1] + 2] = Hi(labels[ref[2]])]

RECURSIVE patch_range(_, _, _, _, _)
patch_range(code, refs, labels, lo, hi) ==
    IF Len(code) < 0 \/ lo > hi THEN code
    ELSE IF lo = hi THEN patch_ref(code, refs[lo], labels)
    ELSE LET mid == (lo + hi) \div 2
         IN  patch_range(patch_range(code, refs, labels, lo, mid),
                         refs, labels, mid + 1, hi)

\* the loop stops at the first reference whose name has no definition
resolve_refs(c) ==
    LET undefined == {j \in DOMAIN c.forward_refs :
                         c.forward_refs[j][2] \notin DOMAIN c.labels}
        first == CHOOSE j \in undefined : \A j2 \in undefined : j <= j2
    IN  IF undefined = {}
        THEN [c   |-> [c EXCEPT !.code = patch_range(c.code, c.forward_refs, c.labels,
                                                     1, Len(c.forward_refs))],
              err |-> ""]
        ELSE [c   |-> [c EXCEPT !.code = patch_range(c.code, c.forward_refs, c.labels,
                                                     1, first - 1)],
              err |-> "Undefined label: " \o c.forward_refs[first][2]]

\* 105-112: a zeroed 32 KiB vector; code bytes are copied while i < 32768
ZeroImage == [j \in 1..IMAGE_SIZE |-> 0]
\* variant of create_image: every code byte is copied (no i < 32768 test)
create_image_uncut(c) ==
    LET kept == IF Len(c.code) < IMAGE_SIZE THEN Len(c.code) ELSE IMAGE_SIZE
    IN  c.code \o SubSeq(ZeroImage, 1, IMAGE_SIZE - kept)

create_image(c) ==
    LET kept == IF Len(c.code) < IMAGE_SIZE THEN Len(c.code) ELSE IMAGE_SIZE
    IN  SubSeq(c.code, 1, kept) \o SubSeq(ZeroImage, 1, IMAGE_SIZE - kept)

NoResult == [status |-> "none", image |-> <<>>, err |-> ""]
Ok(image) == [status |-> "ok", image |-> image, err |-> ""]
Err(msg) == [status |-> "err", image |-> <<>>, err |-> msg]

\* the compile loop over a range of instructions; st is [c, err] and the
\* loop returns at the first Err
RECURSIVE compile_range(_, _, _, _)
compile_range(st, insts, lo, hi) ==
    IF st.err # "" \/ lo > hi THEN st
    ELSE IF lo = hi THEN compile_one(st.c, insts[lo])
    ELSE LET mid == (lo + hi) \div 2
         IN  compile_range(compile_range(st, insts, lo, mid), insts, mid + 1, hi)

\* compile as one function of the ROM: [result, c], c the compiler at return
compile(rom) ==
    LET insts == parse(rom)
        c1 == first_pass(store_rom(new, rom), insts)
        c2 == generate_runtime(generate_init(generate_header(c1)))
        c3 == main_entry(c2, insts)
        s4 == compile_range([c |-> c3, err |-> ""], insts, 1, Len(insts))
        c5 == embed_rom(generate_halt(s4.c))
        s6 == resolve_refs(c5)
    IN  IF s4.err # "" THEN [result |-> Err(s4.err), c |-> s4.c]
        ELSE IF s6.err # "" THEN [result |-> Err(s6.err), c |-> s6.c]
        ELSE [result |-> Ok(create_image(s6.c)), c |-> s6.c]

(***************************************************************************)
(* The ROMs compiled in Spec.                                              *)
(*   - every sequence of at most MaxInsts words of ScanWords, with and     *)
(*     without a trailing odd byte;                                        *)
(*   - the scenario ROMs of the specification and ROMs that use every      *)
(*     opcode pattern, some of them twice;                                 *)
(*   - ROMs whose emitted stream is IMAGE_SIZE + 0..MaxOver bytes long.    *)
(***************************************************************************)
\* JP 200, JP 204, CALL 204, SE V0 07, SUB V0 V1, SYS 200
ScanWords == {4608, 4612, 8708, 12295, 32789, 512}

\* big-endian bytes of a sequence of 16-bit words
RomOf(ws) ==
    [j \in 1..(2 * Len(ws)) |->
        IF j % 2 = 1 THEN ws[(j + 1) \div 2] \div 256 ELSE ws[j \div 2] % 256]

OddTails == {<<>>, <<18>>}

ScanRoms ==
    {RomOf(ws) \o t : ws \in UNION {[1..len -> ScanWords] : len \in 0..MaxInsts},
                      t \in OddTails}

ScenarioRoms ==
    { <<18, 0>>,                                   \* 1200
      <<96, 5, 112, 3, 18, 4>>,                    \* 6005 7003 1204
      <<96, 7, 48, 7, 96, 255, 18, 6>>,            \* 6007 3007 60FF 1206
      <<34, 6, 18, 0, 0, 0, 96, 66, 0, 238>>,      \* 2206 1200 0000 6042 00EE
      <<96, 0, 97, 0, 240, 41, 208, 21, 18, 8>>,   \* 6000 6100 F029 D015 1208
      <<96, 234, 163, 0, 240, 51, 18, 6>>,         \* 60EA A300 F033 1206
      <<80, 1, 18, 2>> }                           \* 5001 1202

\* every match arm of compile_instruction and five unrecognized opcodes
\* (5001 9011 8018 E000 F0FF), ending in a self-jump followed by data:
\* 00E0 0123 6010 7003 8010 8011 8012 8013 8014 8015 8016 8017 801E 9010
\* A300 C0FF D015 E09E E0A1 F007 F00A F015 F018 F01E F029 F033 F055 F065
\* 3007 4007 5010 5001 9011 8018 E000 F0FF 2200 00EE B300 124E
AllOpsRom ==
    RomOf(<< 224, 291, 24592, 28675, 32784, 32785, 32786, 32787, 32788,
             32789, 32790, 32791, 32798, 36880, 41728, 49407, 53269,
             57502, 57505, 61447, 61450, 61461, 61464, 61470, 61481,
             61491, 61525, 61541, 12295, 16391, 20496, 20481, 36881,
             32792, 57344, 61695, 8704, 238, 45824, 4686 >>)
    \o <<1, 2, 3>>

\* the templates with local labels, each twice:
\* 8015 8015 8017 8017 F033 F033 F155 F155 F265 F265 D015 D015 1218
TwiceRom ==
    RomOf(<< 32789, 32789, 32791, 32791, 61491, 61491, 61781, 61781,
             62053, 62053, 53269, 53269, 4632 >>)

\* a ROM of 1200 followed by zero data bytes: its emitted stream is the
\* stream of <<18, 0>> plus the data bytes
BaseLen == Len(compile(<<18, 0>>).c.code)
LargeRoms ==
    {<<18, 0>> \o SubSeq(ZeroImage, 1, IMAGE_SIZE - BaseLen + over) : over \in 0..MaxOver}

\* each skip opcode three times: 3007 4007 5010 9010 E09E E0A1.  The first
\* one has a scanned instruction at addr + 4, the other two have none
SkipWords == {12295, 16391, 20496, 36880, 57502, 57505}
SkipRoms == {RomOf(<<w, w, w>>) : w \in SkipWords}

Roms ==
    ScanRoms \cup ScenarioRoms \cup {AllOpsRom, TwiceRom} \cup LargeRoms \cup SkipRoms

(***************************************************************************)
(* The machine the image runs on: a Z80 with the image in ROM at           *)
(* 0x0000..0x7FFF and RAM from 0x8000 (the CHIP8_ areas of codegen.rs:18-  *)
(* 28; the Z80 stack grows down from 0xFFFF, codegen.rs:135-136).  A       *)
(* machine m is a record of the program counter, the stack pointer, the    *)
(* registers a b c d e h l, the flags the emitted code tests (zf, cf), the *)
(* RAM bytes written so far, the byte every other RAM cell held at power-  *)
(* on (fill), the number of instructions executed (t) and status ("run",   *)
(* "halt" after HALT, "undef" at an opcode the compiler never emits).      *)
(* The instructions are the ones behind the helpers of codegen.rs:1016-    *)
(* 1154 and the bytes emitted directly (LD SP, ADC A, the CB rotates and   *)
(* shifts), with their Z80 semantics and their effect on Z and C.          *)
(***************************************************************************)
\* ROMs that are run
RunRoms ==
    { <<34, 6, 18, 0, 0, 0, 96, 66, 0, 238>>,            \* 2206 1200 0000 6042 00EE
      <<163, 0, 34, 8, 18, 10, 0, 0, 0, 238, 18, 10>>,   \* A300 2208 120A 0000 00EE 120A
      <<34, 4, 18, 10, 34, 8, 0, 238, 0, 238, 18, 10>> } \* 2204 120A 2208 00EE 00EE 120A

\* power-on contents of a RAM cell or register, and bytes an input port gives
Fills == {0, 255}
PortBytes == {0, 2}

RECURSIVE bits(_, _, _, _)
bits(k, v1, v2, width) ==
    IF width = 0 THEN 0
    ELSE LET b1 == v1 % 2
             b2 == v2 % 2
             r  == CASE k = "and" -> b1 * b2
                     [] k = "or"  -> IF b1 + b2 > 0 THEN 1 ELSE 0
                     [] k = "xor" -> (b1 + b2) % 2
         IN  r + 2 * bits(k, v1 \div 2, v2 \div 2, width - 1)

BC(m) == m.b * 256 + m.c
DE(m) == m.d * 256 + m.e
HL(m) == m.h * 256 + m.l

mem_read(im, m, addr) ==
    IF addr < IMAGE_SIZE THEN (IF addr < Len(im) THEN im[addr + 1] ELSE 0)
    ELSE IF addr \in DOMAIN m.ram THEN m.ram[addr]
    ELSE m.fill

mem_write(m, addr, v) ==
    IF addr < IMAGE_SIZE THEN m
    ELSE [m EXCEPT !.ram = (addr :> v) @@ m.ram]

\* the 8-bit operand r of an opcode: B C D E H L (HL) A
reg(im, m, r) ==
    CASE r = 0 -> m.b
      [] r = 1 -> m.c
      [] r = 2 -> m.d
      [] r = 3 -> m.e
      [] r = 4 -> m.h
      [] r = 5 -> m.l
      [] r = 6 -> mem_read(im, m, HL(m))
      [] r = 7 -> m.a

set_reg(m, r, v) ==
    CASE r = 0 -> [m EXCEPT !.b = v]
      [] r = 1 -> [m EXCEPT !.c = v]
      [] r = 2 -> [m EXCEPT !.d = v]
      [] r = 3 -> [m EXCEPT !.e = v]
      [] r = 4 -> [m EXCEPT !.h = v]
      [] r = 5 -> [m EXCEPT !.l = v]
      [] r = 6 -> mem_write(m, HL(m), v)
      [] r = 7 -> [m EXCEPT !.a = v]

\* the 16-bit operand p of an opcode: BC DE HL SP
pair(m, p) ==
    CASE p = 0 -> BC(m)
      [] p = 1 -> DE(m)
      [] p = 2 -> HL(m)
      [] p = 3 -> m.sp

set_pair(m, p, w) ==
    CASE p = 0 -> [m EXCEPT !.b = Hi(w), !.c = Lo(w)]
      [] p = 1 -> [m EXCEPT !.d = Hi(w), !.e = Lo(w)]
      [] p = 2 -> [m EXCEPT !.h = Hi(w), !.l = Lo(w)]
      [] p = 3 -> [m EXCEPT !.sp = w]

\* F as PUSH AF stores it: Z is bit 6 and C is bit 0
flags_byte(m) == (IF m.zf THEN 64 ELSE 0) + (IF m.cf THEN 1 ELSE 0)

push16(m, w) ==
    LET m1 == mem_write(m, U16(m.sp + 65535), Hi(w))
        m2 == mem_write(m1, U16(m.sp + 65534), Lo(w))
    IN  [m2 EXCEPT !.sp = U16(m.sp + 65534)]

pop16(im, m) == mem_read(im, m, m.sp) + 256 * mem_read(im, m, U16(m.sp + 1))

\* ADD ADC SUB SBC AND XOR OR CP of A with v
alu(m, k, v) ==
    LET cy == IF m.cf THEN 1 ELSE 0
        r  == CASE k = 0 -> m.a + v
                [] k = 1 -> m.a + v + cy
                [] k = 2 -> m.a - v
                [] k = 3 -> m.a - v - cy
                [] k = 4 -> bits("and", m.a, v, 8)
                [] k = 5 -> bits("xor", m.a, v, 8)
                [] k = 6 -> bits("or", m.a, v, 8)
                [] k = 7 -> m.a - v
        res == (r + 256) % 256
    IN  [m EXCEPT !.a  = IF k = 7 THEN m.a ELSE res,
                  !.zf = res = 0,
                  !.cf = r > 255 \/ r < 0]

\* the conditions NZ Z NC C of JP cc and RET cc
cond(m, k) ==
    CASE k = 0 -> ~m.zf
      [] k = 1 -> m.zf
      [] k = 2 -> ~m.cf
      [] k = 3 -> m.cf

\* CB xx: RLC, RL, SLA, SRL of operand r
exec_cb(im, m, b1) ==
    LET r  == b1 % 8
        k  == b1 \div 8
        v  == reg(im, m, r)
        cy == IF m.cf THEN 1 ELSE 0
        res == CASE k = 0 -> ((2 * v) % 256) + (v \div 128)
                 [] k = 2 -> ((2 * v) % 256) + cy
                 [] k = 4 -> (2 * v) % 256
                 [] k = 7 -> v \div 2
        out == IF k = 7 THEN v % 2 ELSE v \div 128
        m1 == [m EXCEPT !.pc = U16(m.pc + 2)]
    IN  IF k \in {0, 2, 4, 7}
        THEN [set_reg(m1, r, res) EXCEPT !.zf = res = 0, !.cf = out = 1]
        ELSE [m EXCEPT !.status = "undef"]

\* ED 52: SBC HL,DE
exec_ed(m, b1) ==
    LET r == HL(m) - DE(m) - (IF m.cf THEN 1 ELSE 0)
        w == (r + 65536) % 65536
    IN  IF b1 = 82
        THEN [set_pair(m, 2, w) EXCEPT !.pc = U16(m.pc + 2), !.zf = w = 0, !.cf = r < 0]
        ELSE [m EXCEPT !.status = "undef"]

\* one instruction at m.pc; inb is the byte an IN reads from its port
exec(im, m, inb) ==
    LET op == mem_read(im, m, m.pc)
        b1 == mem_read(im, m, U16(m.pc + 1))
        b2 == mem_read(im, m, U16(m.pc + 2))
        w  == b1 + 256 * b2
        r  == (op \div 8) % 8
        s  == op % 8
        p  == (op \div 16) % 4
        m1 == [m EXCEPT !.pc = U16(m.pc + 1)]
        m2 == [m EXCEPT !.pc = U16(m.pc + 2)]
        m3 == [m EXCEPT !.pc = U16(m.pc + 3)]
    IN  CASE op = 0 -> m1
          [] op = 118 -> [m EXCEPT !.status = "halt"]
          [] op \in 64..127 /\ op # 118 -> set_reg(m1, r, reg(im, m, s))
          [] op \in 128..191 -> alu(m1, r, reg(im, m, s))
          [] op < 64 /\ s = 6 -> set_reg(m2, r, b1)
          [] op < 64 /\ s = 4 ->
                LET v == (reg(im, m, r) + 1) % 256
                IN  [set_reg(m1, r, v) EXCEPT !.zf = v = 0]
          [] op < 64 /\ s = 5 ->
                LET v == (reg(im, m, r) + 255) % 256
                IN  [set_reg(m1, r, v) EXCEPT !.zf = v = 0]
          [] op < 64 /\ op % 16 = 1 -> set_pair(m3, p, w)
          [] op < 64 /\ op % 16 = 3 -> set_pair(m1, p, U16(pair(m, p) + 1))
          [] op < 64 /\ op % 16 = 11 -> set_pair(m1, p, U16(pair(m, p) + 65535))
          [] op < 64 /\ op % 16 = 9 ->
                [set_pair(m1, 2, U16(HL(m) + pair(m, p)))
                    EXCEPT !.cf = HL(m) + pair(m, p) > 65535]
          [] op = 26 -> [m1 EXCEPT !.a = mem_read(im, m, DE(m))]
          [] op = 18 -> mem_write(m1, DE(m), m.a)
          [] op = 58 -> [m3 EXCEPT !.a = mem_read(im, m, w)]
          [] op = 50 -> mem_write(m3, w, m.a)
          [] op = 195 -> [m EXCEPT !.pc = w]
          [] op \in {194, 202, 210, 218} ->
                IF cond(m, r) THEN [m EXCEPT !.pc = w] ELSE m3
          [] op = 205 -> [push16(m, U16(m.pc + 3)) EXCEPT !.pc = w]
          [] op = 201 -> [m EXCEPT !.pc = pop16(im, m), !.sp = U16(m.sp + 2)]
          [] op = 200 ->
                IF m.zf THEN [m EXCEPT !.pc = pop16(im, m), !.sp = U16(m.sp + 2)]
                ELSE m1
          [] op >= 192 /\ s = 6 -> alu(m2, r, b1)
          [] op \in {197, 213, 229} -> push16(m1, pair(m, p))
          [] op = 245 -> push16(m1, m.a * 256 + flags_byte(m))
          [] op \in {193, 209, 225} ->
                [set_pair(m1, p, pop16(im, m)) EXCEPT !.sp = U16(m.sp + 2)]
          [] op = 241 ->
                LET af == pop16(im, m)
                IN  [m1 EXCEPT !.a = Hi(af), !.zf = (Lo(af) \div 64) % 2 = 1,
                               !.cf = Lo(af) % 2 = 1, !.sp = U16(m.sp + 2)]
          [] op = 235 -> [m1 EXCEPT !.d = m.h, !.e = m.l, !.h = m.d, !.l = m.e]
          [] op = 211 -> m2
          [] op = 219 -> [m2 EXCEPT !.a = inb]
          [] op = 203 -> exec_cb(im, m, b1)
          [] op = 237 -> exec_ed(m, b1)
          [] OTHER -> [m EXCEPT !.status = "undef"]

step(im, m, inb) ==
    IF m.status = "run" THEN [exec(im, m, inb) EXCEPT !.t = m.t + 1] ELSE m

\* the machine at reset: PC = 0; registers and RAM hold their power-on bytes
reset(fill) ==
    [ pc |-> 0, sp |-> fill * 257, a |-> fill, b |-> fill, c |-> fill,
      d |-> fill, e |-> fill, h |-> fill, l |-> fill,
      zf |-> fill # 0, cf |-> fill # 0,
      ram |-> EmptyMap, fill |-> fill, t |-> 0, status |-> "run" ]

\* the run from m until pc = stop, at most k instructions, with the ACIA
\* ready at every poll (status byte 2).  The halves keep the evaluation
\* shallow, and drawing m from a singleton makes TLC evaluate it once.
RECURSIVE run_to(_, _, _, _)
run_to(im, m, stop, k) ==
    CHOOSE res \in
        { IF v.pc = stop \/ v.status # "run" \/ k = 0 THEN v
          ELSE IF k = 1 THEN step(im, v, 2)
          ELSE run_to(im, run_to(im, v, stop, k \div 2), stop, k - k \div 2)
          : v \in {m} } : TRUE

\* codegen.rs:131-172: the machine when init jumps to main
BootSteps == 65536
at_main(c, image, fill) ==
    [run_to(image, reset(fill), c.labels["main"], BootSteps) EXCEPT !.t = 0]

PowerOff == [status |-> "off"]
NoJob == [kind |-> "none"]

(***************************************************************************)
(* The CHIP-8 call in progress, as a history of the run: chip8_call        *)
(* records the return address and the CHIP-8 SP byte when control enters   *)
(* the translation of a 2NNN, and notes the step that executes the Z80 RET *)
(* closing the translation of a 00EE.                                      *)
(***************************************************************************)
NoCall == [ret |-> 0, sp |-> 0, open |-> FALSE, returned |-> FALSE]

\* the scanned 2NNN whose translation starts at offset pc, if any
CallEntry(insts, labels, pc) ==
    {k \in DOMAIN insts :
        /\ insts[k].opcode \div 4096 = 2
        /\ labels[c8_label(insts[k].addr)] = pc}

\* pc is at the last byte (RET) of the translation of a scanned 00EE
AtRetEnd(insts, labels, pc) ==
    \E k \in DOMAIN insts :
        /\ insts[k].opcode = 238
        /\ labels[c8_label(insts[k].addr)] + Len(t_ret) - 1 = pc

note_call(insts, labels, im, m, call) ==
    IF CallEntry(insts, labels, m.pc) # {}
    THEN LET k == CHOOSE k2 \in CallEntry(insts, labels, m.pc) : TRUE
         IN  [ret |-> U16(insts[k].addr + 2),
              sp |-> mem_read(im, m, CHIP8_SP),
              open |-> TRUE, returned |-> FALSE]
    ELSE IF AtRetEnd(insts, labels, m.pc) /\ call.open
    THEN [call EXCEPT !.open = FALSE, !.returned = TRUE]
    ELSE [call EXCEPT !.returned = FALSE]

(***************************************************************************)
(* Spec: one call of Compiler::new().compile(rom).                         *)
(*   rom           the input slice                                         *)
(*   at            the position in compile                                 *)
(*   i, instructions, stopped   the locals of parse (its loop state)       *)
(*   comp          the Compiler (self)                                     *)
(*   next_inst     the index of the compile loop over instructions         *)
(*   result        what compile returned                                   *)
(*   cpu           the machine the image runs on (off while compile runs)  *)
(*   chip8_call    the CHIP-8 call in progress on that machine             *)
(*   job           the unit of the image the machine was started on        *)
(***************************************************************************)
VARIABLES rom, at, i, instructions, stopped, comp, next_inst, result,
          cpu, chip8_call, job

machine == <<cpu, chip8_call, job>>

vars ==
    <<rom, at, i, instructions, stopped, comp, next_inst, result, cpu, chip8_call, job>>

ParseState == [i |-> i, instructions |-> instructions, stopped |-> stopped]

Init ==
    /\ rom \in Roms
    /\ at = "store_rom"
    /\ i = 0
    /\ instructions = <<>>
    /\ stopped = FALSE
    /\ comp = new
    /\ next_inst = 1
    /\ result = NoResult
    /\ cpu = PowerOff
    /\ chip8_call = NoCall
    /\ job = NoJob

StoreRom ==
    /\ at = "store_rom"
    /\ comp' = store_rom(comp, rom)
    /\ at' = "parse"
    /\ UNCHANGED <<machine, rom, i, instructions, stopped, next_inst, result>>

\* one iteration of parse's while loop
ParseStep ==
    /\ at = "parse"
    /\ parse_continues(rom, ParseState)
    /\ LET ps == parse_step(rom, ParseState)
       IN  /\ i' = ps.i
           /\ instructions' = ps.instructions
           /\ stopped' = ps.stopped
    /\ UNCHANGED <<machine, rom, at, comp, next_inst, result>>

\* parse has returned: the first pass over the instructions
FirstPass ==
    /\ at = "parse"
    /\ ~parse_continues(rom, ParseState)
    /\ comp' = first_pass(comp, instructions)
    /\ at' = "header"
    /\ UNCHANGED <<machine, rom, i, instructions, stopped, next_inst, result>>

GenerateHeader ==
    /\ at = "header"
    /\ comp' = generate_header(comp)
    /\ at' = "init"
    /\ UNCHANGED <<machine, rom, i, instructions, stopped, next_inst, result>>

GenerateInit ==
    /\ at = "init"
    /\ comp' = generate_init(comp)
    /\ at' = "runtime"
    /\ UNCHANGED <<machine, rom, i, instructions, stopped, next_inst, result>>

GenerateRuntime ==
    /\ at = "runtime"
    /\ comp' = generate_runtime(comp)
    /\ at' = "main"
    /\ UNCHANGED <<machine, rom, i, instructions, stopped, next_inst, result>>

MainEntry ==
    /\ at = "main"
    /\ comp' = main_entry(comp, instructions)
    /\ at' = "instructions"
    /\ UNCHANGED <<machine, rom, i, instructions, stopped, next_inst, result>>

\* one iteration of the compile loop; an Err returns from compile
CompileInstruction ==
    /\ at = "instructions"
    /\ next_inst <= Len(instructions)
    /\ LET r == compile_one(comp, instructions[next_inst])
       IN  /\ comp' = r.c
           /\ next_inst' = next_inst + 1
           /\ result' = IF r.err # "" THEN Err(r.err) ELSE result
           /\ at' = IF r.err # "" THEN "done" ELSE at
    /\ UNCHANGED <<machine, rom, i, instructions, stopped>>

GenerateHalt ==
    /\ at = "instructions"
    /\ next_inst > Len(instructions)
    /\ comp' = generate_halt(comp)
    /\ at' = "embed"
    /\ UNCHANGED <<machine, rom, i, instructions, stopped, next_inst, result>>

EmbedRom ==
    /\ at = "embed"
    /\ comp' = embed_rom(comp)
    /\ at' = "resolve"
    /\ UNCHANGED <<machine, rom, i, instructions, stopped, next_inst, result>>

ResolveRefs ==
    /\ at = "resolve"
    /\ LET r == resolve_refs(comp)
       IN  /\ comp' = r.c
           /\ result' = IF r.err # "" THEN Err(r.err) ELSE result
           /\ at' = IF r.err # "" THEN "done" ELSE "image"
    /\ UNCHANGED <<machine, rom, i, instructions, stopped, next_inst>>

CreateImage ==
    /\ at = "image"
    /\ result' = Ok(create_image(comp))
    /\ at' = "done"
    /\ UNCHANGED <<machine, rom, i, instructions, stopped, comp, next_inst>>

Next ==
    \/ StoreRom
    \/ ParseStep
    \/ FirstPass
    \/ GenerateHeader
    \/ GenerateInit
    \/ GenerateRuntime
    \/ MainEntry
    \/ CompileInstruction
    \/ GenerateHalt
    \/ EmbedRom
    \/ ResolveRefs
    \/ CreateImage

Spec == Init /\ [][Next]_vars

(***************************************************************************)
(* SpecRun: compile has returned Ok(image) for rom and the image runs on   *)
(* the machine.  The compiler's variables hold what compile left (they do  *)
(* not change any more); a run starts where init jumps to main and is      *)
(* followed for MaxSteps instructions.                                     *)
(***************************************************************************)
InitRun ==
    /\ rom \in RunRoms
    /\ at = "done"
    /\ \E ps \in {parse_loop(rom, parse_init)} :
          /\ i = ps.i
          /\ instructions = ps.instructions
          /\ stopped = ps.stopped
          /\ next_inst = Len(ps.instructions) + 1
    /\ \E r \in {compile(rom)} :
          /\ comp = r.c
          /\ result = r.result
          /\ \E fill \in Fills : cpu = at_main(r.c, r.result.image, fill)
    /\ chip8_call = NoCall
    /\ job = NoJob

\* the machine executes the instruction at cpu.pc
RunInstruction ==
    /\ at = "done"
    /\ result.status = "ok"
    /\ cpu.status = "run"
    /\ cpu.t < MaxSteps
    /\ \E inb \in PortBytes : cpu' = step(result.image, cpu, inb)
    /\ chip8_call' = note_call(instructions, comp.labels, result.image, cpu, chip8_call)
    /\ UNCHANGED <<rom, at, i, instructions, stopped, comp, next_inst, result, job>>

NextRun == RunInstruction

SpecRun == InitRun /\ [][NextRun]_vars

(***************************************************************************)
(* Units of the image run on the machine.  A job starts the machine on one *)
(* unit of the image of a ROM: the whole program from the point init jumps *)
(* to main ("program"), the translation of the CHIP-8 instruction at 0x200 *)
(* ("template"), or a routine of the runtime entered by CALL (the kind is  *)
(* the routine's label).  A job is given by its ROM, the RAM cells and     *)
(* registers set before the unit starts, and the power-on byte of the      *)
(* rest.  The variable job keeps the machine at the start of the unit      *)
(* (m0), the offset where control arrives when the unit has run (stop),    *)
(* the offset of the instruction that ends a unit leaving by a computed    *)
(* jump (last), the reads of ports so far, each <<port, byte>> (reads),    *)
(* and whether the unit has run (done).  The state holds the returned      *)
(* image without its tail of zeros.                                        *)
(***************************************************************************)
MaxCallSteps == 520
\* no offset: outside the 16-bit address space
Never == 2 * IMAGE_SIZE

\* translations run alone: the instruction w at 0x200, then 1202
TemplateRom(w) == RomOf(<<w, 4610>>)
\* 8XY4 8XY5 8XY6 8XY7 8XYE for (x, y) = (0, 1), (F, 1), (0, F), (0, 0)
AluWords ==
    {32768 + 256 * xy[1] + 16 * xy[2] + op :
        xy \in {<<0, 1>>, <<15, 1>>, <<0, 15>>, <<0, 0>>}, op \in {4, 5, 6, 7, 14}}

\* ROMs run from reset: C0FF 1200 (RND V0,FF for ever) and the BCD scenario
RngRom == <<192, 255, 18, 0>>
BcdRom == <<96, 234, 163, 0, 240, 51, 18, 6>>
\* the runtime routines are called in the image of 1200
BaseRom == <<18, 0>>

\* the machine about to execute the byte at offset pcv with the Z80 stack
\* empty (SP = 0, codegen.rs:135-136), RAM cells ramv, everything else at
\* its power-on byte
started(pcv, ramv, fill) == [reset(fill) EXCEPT !.pc = pcv, !.sp = 0, !.ram = ramv]

\* the machine CALLed at offset pcv from code that continues at offset ret
called(pcv, ret, ramv, fill) ==
    [push16(started(pcv, ramv, fill), ret) EXCEPT !.pc = pcv]

ProgramJob(r, fill) ==
    [rom |-> r, kind |-> "program", ram |-> EmptyMap, regs |-> EmptyMap, fill |-> fill]
TemplateJob(r, ramv, fill) ==
    [rom |-> r, kind |-> "template", ram |-> ramv, regs |-> EmptyMap, fill |-> fill]
RoutineJob(name, ramv, regs, fill) ==
    [rom |-> BaseRom, kind |-> name, ram |-> ramv, regs |-> regs, fill |-> fill]

\* the machine at the start of job j in the image im of compiler state c: a
\* routine is called from code that continues at the offset of halt
job_machine(j, c, im) ==
    IF j.kind = "program" THEN at_main(c, im, j.fill)
    ELSE IF j.kind = "template"
    THEN started(c.labels[c8_label(CHIP8_BASE)], j.ram, j.fill)
    ELSE LET m == called(c.labels[j.kind], c.labels["halt"], j.ram, j.fill)
         IN  [f \in DOMAIN m |-> IF f \in DOMAIN j.regs THEN j.regs[f] ELSE m[f]]

\* where control arrives when the unit has run: the closing jump of the ROM
\* (c8_202 after one translation), or the entry of refresh_display when the
\* instruction before the closing jump is a DXYN (the unit ends where the
\* terminal output starts); the caller after a routine; a program does not end
job_stop(j, c) ==
    IF j.kind = "program" THEN Never
    ELSE IF j.kind = "template"
    THEN IF j.rom[Len(j.rom) - 3] \div 16 = 13
         THEN c.labels["refresh_display"]
         ELSE c.labels[c8_label(CHIP8_BASE + Len(j.rom) - 2)]
    ELSE c.labels["halt"]

\* the RET that ends the translation of 00EE
job_last(j, c) ==
    IF j.kind = "template" /\ j.rom = TemplateRom(238)
    THEN c.labels[c8_label(CHIP8_BASE)] + Len(t_ret) - 1
    ELSE Never

\* the byte a port gives: any status byte of the ACIA with its two low bits
\* (receive ready, transmit ready), any data byte
StatusBytes == 0..3
port_bytes(port) == IF port = ACIA_CTRL THEN StatusBytes ELSE 0..255

\* the data bytes a translation is given: the ends of the three ranges of
\* get_key ('0' '9' 'A' 'F' 'a' 'f'), their neighbours, 0 and 0xFF
KeyBytes == {0, 47, 48, 57, 58, 64, 65, 70, 71, 96, 97, 102, 103, 255}
job_bytes(kind, port) ==
    IF kind = "template" /\ port = ACIA_DATA THEN KeyBytes ELSE port_bytes(port)

\* port reads followed in one unit
MaxReads == 4

\* the returned image without its tail of zeros (mem_read gives 0 there)
loaded(res, c) == [res EXCEPT !.image = SubSeq(@, 1, Len(c.code))]

InitJobs(js) ==
    /\ at = "done"
    /\ \E j \in js :
          /\ rom = j.rom
          /\ \E r \in {compile(j.rom)} :
                /\ comp = r.c
                /\ result = loaded(r.result, r.c)
                /\ \E m \in {job_machine(j, r.c, r.result.image)} :
                      /\ cpu = m
                      /\ job = [kind |-> j.kind, m0 |-> m, stop |-> job_stop(j, r.c),
                                last |-> job_last(j, r.c), reads |-> <<>>,
                                done |-> FALSE]
    /\ \E ps \in {parse_loop(rom, parse_init)} :
          /\ i = ps.i
          /\ instructions = ps.instructions
          /\ stopped = ps.stopped
          /\ next_inst = Len(ps.instructions) + 1
    /\ chip8_call = NoCall

\* the machine executes the instruction at cpu.pc of the job's unit
CallStep ==
    /\ job.kind # "none"
    /\ ~job.done
    /\ cpu.status = "run"
    /\ cpu.t < MaxCallSteps
    /\ \E op \in {mem_read(result.image, cpu, cpu.pc)},
          port \in {mem_read(result.image, cpu, U16(cpu.pc + 1))} :
          \E inb \in (IF op = 219 THEN job_bytes(job.kind, port) ELSE {0}) :
             /\ op = 219 => Len(job.reads) < MaxReads
             /\ cpu' = step(result.image, cpu, inb)
             /\ job' = [job EXCEPT
                          !.reads = IF op = 219 THEN Append(@, <<port, inb>>) ELSE @,
                          !.done = cpu'.pc = job.stop \/ cpu.pc = job.last]
    /\ UNCHANGED <<rom, at, i, instructions, stopped, comp, next_inst, result,
                   chip8_call>>

NextCall == CallStep

\* the images run from reset, for each power-on byte
ProgramJobs == {ProgramJob(r, fill) : r \in {RngRom, BcdRom}, fill \in Fills}
SpecProgram == InitJobs(ProgramJobs) /\ [][NextCall]_vars

\* one call of get_key
KeyJobs == {RoutineJob("get_key", EmptyMap, EmptyMap, fill) : fill \in Fills}
SpecKey == InitJobs(KeyJobs) /\ [][NextCall]_vars

\* register values the translations are run on
ByteVals == {0, 1, 127, 128, 129, 254, 255}

\* the translation of each 8XY4/5/6/7/E of AluWords, for each Vx and Vy
AluJobs ==
    {TemplateJob(TemplateRom(w),
                 (CHIP8_V0 + ((w \div 256) % 16) :> a) @@ (CHIP8_V0 + ((w \div 16) % 16) :> b),
                 fill) : w \in AluWords, a \in ByteVals, b \in ByteVals, fill \in Fills}
SpecAlu == InitJobs(AluJobs) /\ [][NextCall]_vars

\* values of Vx and of I the translation of FX33 is run on
BcdVals == {0, 9, 10, 99, 100, 101, 199, 200, 234, 255}
IVals == {0, 512, 768, 4095}

\* the translation of the FX33 word w with Vx = v and I = iv
BcdJob(w, v, iv, fill) ==
    TemplateJob(TemplateRom(w),
                (CHIP8_V0 + ((w \div 256) % 16) :> v) @@ (CHIP8_I :> Lo(iv))
                    @@ (CHIP8_I + 1 :> Hi(iv)),
                fill)

\* F033 and F533 for each Vx of BcdVals and each I, and F033 for every Vx
BcdJobs ==
    {BcdJob(w, v, iv, fill) :
        w \in {61491, 62771}, v \in BcdVals, iv \in IVals, fill \in Fills}
    \cup {BcdJob(61491, v, 768, 0) : v \in 0..255}
SpecBcd == InitJobs(BcdJobs) /\ [][NextCall]_vars

\* CHIP-8 stack depths, values of I and stacked words 00EE is run on (the
\* CHIP-8 address 0x202 as 2NNN stores it, and an offset in the runtime)
SpVals == {1, 2, 3, 16}
RetIVals == {0, 256, 768, 4095}
RetWords == {CHIP8_BASE + 2, CODE_START + CHIP8_BASE}

\* the translation of 00EE with SP = s, I = iv and the word w in the top
\* stack slot, at CHIP8_STACK + 2 * (s - 1)
RetJobs ==
    {TemplateJob(TemplateRom(238),
                 (CHIP8_SP :> s) @@ (CHIP8_I :> Lo(iv)) @@ (CHIP8_I + 1 :> Hi(iv))
                     @@ (CHIP8_STACK + 2 * (s - 1) :> Lo(w))
                     @@ (CHIP8_STACK + 2 * (s - 1) + 1 :> Hi(w)),
                 fill) : s \in SpVals, iv \in RetIVals, w \in RetWords, fill \in Fills}
SpecRet == InitJobs(RetJobs) /\ [][NextCall]_vars

\* sprites and screen columns draw_sprite is called on: the byte of each
\* row r in 0..14
MaxSpriteRows == 15
SpriteRows ==
    { [r \in 0..(MaxSpriteRows - 1) |-> 0],
      [r \in 0..(MaxSpriteRows - 1) |-> 240],
      [r \in 0..(MaxSpriteRows - 1) |-> (37 * r + 1) % 256] }
ScreenRows ==
    { [r \in 0..(MaxSpriteRows - 1) |-> 0],
      [r \in 0..(MaxSpriteRows - 1) |-> 15],
      [r \in 0..(MaxSpriteRows - 1) |-> IF r = 0 THEN 144 ELSE 0],
      [r \in 0..(MaxSpriteRows - 1) |-> IF r = 2 THEN 129 ELSE 255 - r] }

\* one call of draw_sprite with DE = de (screen), HL = hl (sprite), B = rows
SpriteJob(de, hl, rows, spr, scr, fill) ==
    LET ramv == [addr \in {hl + r : r \in 0..(MaxSpriteRows - 1)}
                             \cup {de + 8 * r : r \in 0..(MaxSpriteRows - 1)} |->
                    IF addr >= hl THEN spr[addr - hl] ELSE scr[(addr - de) \div 8]]
    IN  RoutineJob("draw_sprite", ramv,
                   [d |-> Hi(de), e |-> Lo(de), h |-> Hi(hl), l |-> Lo(hl), b |-> rows],
                   fill)

\* 1 to 3 rows anywhere on the screen, and 15 rows from the top row
SpriteJobs ==
    {SpriteJob(de, CHIP8_RAM, rows, spr, scr, fill) :
        de \in {DISPLAY_BUF, DISPLAY_BUF + 9, DISPLAY_BUF + 247}, rows \in 1..3,
        spr \in SpriteRows, scr \in ScreenRows, fill \in Fills}
    \cup {SpriteJob(DISPLAY_BUF + 7, CHIP8_RAM, MaxSpriteRows, spr, scr, 0) :
             spr \in SpriteRows, scr \in ScreenRows}
SpecSprite == InitJobs(SpriteJobs) /\ [][NextCall]_vars

\* register numbers x, values of V0..VF (V[k] = 37 p + 17 k) and of the bytes
\* at the address of I (91 p + 29 k + 5) FX55 and FX65 are run on
CopyXs == {0, 1, 7, 15}
CopyPatterns == {1, 2}
CopyRam(p, iv) ==
    [a \in (CHIP8_V0..(CHIP8_V0 + 15)) \cup {CHIP8_I, CHIP8_I + 1}
            \cup ((CHIP8_RAM - 512 + iv)..(CHIP8_RAM - 512 + iv + 15)) |->
        IF a = CHIP8_I THEN Lo(iv)
        ELSE IF a = CHIP8_I + 1 THEN Hi(iv)
        ELSE IF a < CHIP8_I THEN (37 * p + 17 * (a - CHIP8_V0)) % 256
        ELSE (91 * p + 29 * (a - (CHIP8_RAM - 512 + iv)) + 5) % 256]

\* FX55 alone, FX65 alone, and FX55 followed by FX65 with the same x
CopyRoms(xv) ==
    {TemplateRom(61525 + 256 * xv), TemplateRom(61541 + 256 * xv),
     RomOf(<<61525 + 256 * xv, 61541 + 256 * xv, 4612>>)}
CopyJobs ==
    {TemplateJob(r, CopyRam(p, iv), fill) :
        r \in UNION {CopyRoms(xv) : xv \in CopyXs}, p \in CopyPatterns,
        iv \in IVals, fill \in Fills}
SpecCopy == InitJobs(CopyJobs) /\ [][NextCall]_vars

\* FX29 followed by DXY1 for x in {0, A} and every Vx, and D011 alone for
\* values of I on both sides of 0x50
FontWords == {<<61481, 53265, 4612>>, <<64041, 56241, 4612>>}
DrawIVals == {0, 79, 80, 81, 255, 256, 511, 512, 767, 4095}
FontJobs ==
    {TemplateJob(RomOf(ws), (CHIP8_V0 + ((ws[1] \div 256) % 16) :> v), 0) :
        ws \in FontWords, v \in 0..255}
    \cup {TemplateJob(RomOf(ws), (CHIP8_V0 + ((ws[1] \div 256) % 16) :> v), 255) :
        ws \in FontWords, v \in {0, 15, 16, 255}}
    \cup {TemplateJob(TemplateRom(53265),
                      (CHIP8_I :> Lo(iv)) @@ (CHIP8_I + 1 :> Hi(iv)), fill) :
        iv \in DrawIVals, fill \in Fills}
SpecFont == InitJobs(FontJobs) /\ [][NextCall]_vars

\* F00A and F50A with Vx = 0xAA before
WaitJobs ==
    {TemplateJob(TemplateRom(w), (CHIP8_V0 + ((w \div 256) % 16) :> 170), fill) :
        w \in {61450, 62730}, fill \in Fills}
SpecWait == InitJobs(WaitJobs) /\ [][NextCall]_vars

\* D12N for values of V1 (column), V2 (row), N and I; the display, the font
\* bitmap and the sprite source hold the power-on byte
DrawXs == {0, 8, 63, 255}
DrawYs == {0, 16, 30, 31, 255}
DrawNs == {0, 1, 2, 5, 15}
DrawJobs ==
    {TemplateJob(TemplateRom(53536 + k),
                 (CHIP8_V0 + 1 :> vx) @@ (CHIP8_V0 + 2 :> vy)
                     @@ (CHIP8_I :> Lo(iv)) @@ (CHIP8_I + 1 :> Hi(iv)),
                 fill) :
        vx \in DrawXs, vy \in DrawYs, k \in DrawNs, iv \in {0, 512}, fill \in Fills}
SpecDraw == InitJobs(DrawJobs) /\ [][NextCall]_vars

\* memory of the machine m running the image, and the offset of a label
Mem(m, addr) == mem_read(result.image, m, addr)
Label(name) == comp.labels[name]
Mem16(m, addr) == Mem(m, addr) + 256 * Mem(m, U16(addr + 1))

(***************************************************************************)
(* Vocabulary of the claims about a compilation.                           *)
(***************************************************************************)
Returned == at = "done"
ReturnedOk == result.status = "ok"
ReturnedErr == result.status = "err"
Parsed == at \notin {"store_rom", "parse"}

OpClass(inst) == nibbles(inst)[1]
ScannedAddrs == {instructions[j].addr : j \in DOMAIN instructions}
IsBranch(inst) == OpClass(inst) \in {1, 2}
\* every scanned JP and CALL targets the address of a scanned instruction
BranchTargetsScanned ==
    \A j \in DOMAIN instructions :
        IsBranch(instructions[j]) => nnn(instructions[j]) \in ScannedAddrs

\* bytes a sequence of emitter calls appends, and the first of them
EmittedSize(its) ==
    Cardinality({j \in DOMAIN its : its[j].k = "b"})
        + 2 * Cardinality({j \in DOMAIN its : its[j].k = "ref"})
FirstEmitted(its) ==
    LET js == {j \in DOMAIN its : its[j].k # "def"}
        j0 == CHOOSE j \in js : \A j2 \in js : j <= j2
    IN  IF its[j0].k = "b" THEN its[j0].v ELSE 0

(***************************************************************************)
(* C1.  Whenever compile returns Ok, the returned image is exactly 32768   *)
(* bytes long, whatever the length of the ROM and of the emitted stream.   *)
(***************************************************************************)
C1_ImageLength == ReturnedOk => Len(result.image) = 32768

\* an Ok return whose emitted stream is longer than the image
C1_Witness == ReturnedOk /\ Len(comp.code) > 32768

(***************************************************************************)
(* C2.  In every returned image byte 0 is 0xC3, bytes 1..2 are 0x00 0x01,  *)
(* bytes 3..0xFF are zero, and the label init is defined at offset 0x0100, *)
(* the target of the reset jump, where the first byte of init (0x31,       *)
(* LD SP) lies.                                                            *)
(***************************************************************************)
C2_BootHeader ==
    ReturnedOk =>
        /\ result.image[1] = 195
        /\ result.image[2] = 0
        /\ result.image[3] = 1
        /\ \A j \in 4..256 : result.image[j] = 0
        /\ "init" \in DOMAIN comp.labels
        /\ comp.labels["init"] = 256
        /\ result.image[2] + 256 * result.image[3] = comp.labels["init"]
        /\ result.image[comp.labels["init"] + 1] = 49

C2_Witness == ReturnedOk /\ Len(instructions) >= 2

(***************************************************************************)
(* C3.  parse returns instructions k = 0..m-1, instruction k at address    *)
(* 0x200 + 2k with opcode rom[2k]*256 + rom[2k+1], where m is the smaller  *)
(* of floor(L/2) and (index of the first JP whose NNN is its own address)  *)
(* + 1; while the loop runs the instructions are a prefix of that list.    *)
(***************************************************************************)
WordAt(bytes, k) == bytes[2 * k + 1] * 256 + bytes[2 * k + 2]
SelfJumps(bytes) ==
    {k \in 0..(Len(bytes) \div 2 - 1) :
        /\ WordAt(bytes, k) \div 4096 = 1
        /\ WordAt(bytes, k) % 4096 = 512 + 2 * k}
ScanLength(bytes) ==
    IF SelfJumps(bytes) = {} THEN Len(bytes) \div 2
    ELSE (CHOOSE k \in SelfJumps(bytes) : \A k2 \in SelfJumps(bytes) : k <= k2) + 1

C3_Parse ==
    /\ Len(instructions) <= ScanLength(rom)
    /\ \A k \in 0..(Len(instructions) - 1) :
          /\ instructions[k + 1].addr = 512 + 2 * k
          /\ instructions[k + 1].opcode = WordAt(rom, k)
    /\ Parsed => Len(instructions) = ScanLength(rom)

\* parse has returned for a ROM of odd length with words after its self-jump
C3_Witness ==
    /\ Parsed
    /\ Len(rom) % 2 = 1
    /\ Len(instructions) >= 2
    /\ Len(instructions) < Len(rom) \div 2

(***************************************************************************)
(* C4.  After a successful compile every scanned instruction at address A  *)
(* has its label c8_AAA defined at the offset where its translation        *)
(* starts: the translation occupies the bytes from that offset up to the   *)
(* next c8_ label (halt after the last instruction), so the offsets are    *)
(* non-decreasing, and an instruction with an empty template shares the    *)
(* offset of the label that follows it.                                    *)
(***************************************************************************)
FollowingLabel(k) ==
    IF k < Len(instructions) THEN c8_label(instructions[k + 1].addr) ELSE "halt"

C4_InstructionLabels ==
    ReturnedOk =>
        \A k \in DOMAIN instructions :
            LET name == c8_label(instructions[k].addr)
                t    == template(instructions[k], comp.chip8_labels).items
            IN  /\ name \in DOMAIN comp.labels
                /\ FollowingLabel(k) \in DOMAIN comp.labels
                /\ comp.labels[name] <= comp.labels[FollowingLabel(k)]
                /\ comp.labels[FollowingLabel(k)] - comp.labels[name] = EmittedSize(t)
                /\ t = <<>> => comp.labels[name] = comp.labels[FollowingLabel(k)]
                /\ t # <<>> => result.image[comp.labels[name] + 1] = FirstEmitted(t)

\* a SYS in front of another instruction, and an instruction with a body
C4_Witness ==
    /\ ReturnedOk
    /\ \E k \in DOMAIN instructions :
          /\ k < Len(instructions)
          /\ template(instructions[k], comp.chip8_labels).items = <<>>
    /\ \E k \in DOMAIN instructions :
          template(instructions[k], comp.chip8_labels).items # <<>>

(***************************************************************************)
(* C5.  When every scanned JP and CALL targets a scanned address, compile  *)
(* does not fail: at fixup every recorded forward reference names a        *)
(* defined label, and compile returns Ok.                                  *)
(***************************************************************************)
C5_ReferencesResolve ==
    (Parsed /\ BranchTargetsScanned) =>
        /\ ~ReturnedErr
        /\ at \in {"resolve", "image", "done"} =>
              \A j \in DOMAIN comp.forward_refs :
                  comp.forward_refs[j][2] \in DOMAIN comp.labels
        /\ Returned => ReturnedOk

\* an Ok return of a ROM with a CALL, a JP and a skip that is taken to c8_
C5_Witness ==
    /\ ReturnedOk
    /\ \E j \in DOMAIN instructions : OpClass(instructions[j]) = 2
    /\ \E j \in DOMAIN instructions : OpClass(instructions[j]) = 1
    /\ \E j \in DOMAIN instructions : OpClass(instructions[j]) = 3

(***************************************************************************)
(* C6.  If some scanned JP or CALL targets an address that is not the      *)
(* address of a scanned instruction, compile returns an error and no       *)
(* image, whatever else the ROM contains.                                  *)
(***************************************************************************)
C6_UnknownBranchTarget ==
    (Parsed /\ ~BranchTargetsScanned) =>
        /\ ~ReturnedOk
        /\ at \notin {"embed", "resolve", "image"}
        /\ Returned => (ReturnedErr /\ result.image = <<>>)

\* an error return where the bad branch is a CALL that follows other code
C6_Witness ==
    /\ Returned
    /\ ReturnedErr
    /\ \E j \in DOMAIN instructions :
          /\ j > 1
          /\ OpClass(instructions[j]) = 2
          /\ nnn(instructions[j]) \notin ScannedAddrs

(***************************************************************************)
(* C7.  If the emitted byte stream is longer than 32768 bytes, compile     *)
(* fails (ImageTooLarge) instead of returning an image.                    *)
(***************************************************************************)
C7_ImageTooLarge == (Returned /\ Len(comp.code) > 32768) => ReturnedErr

(***************************************************************************)
(* C8.  Defining a label whose name is already in the label table fails    *)
(* (DuplicateLabel): no step of a compilation that goes on replaces the    *)
(* offset recorded for a name.                                             *)
(***************************************************************************)
C8_DuplicateLabelFails ==
    [][\A name \in DOMAIN comp.labels :
          comp'.labels[name] = comp.labels[name] \/ result'.status = "err"]_vars

(***************************************************************************)
(* C9.  Every label name is defined at most once during a compile, so a    *)
(* branch inside a template resolves to a definition emitted by the same   *)
(* instruction's template: its target lies within that translation.        *)
(***************************************************************************)
LocalDefs(its) == {its[j].v : j \in {j2 \in DOMAIN its : its[j2].k = "def"}}

C9_LabelsDefinedOnce ==
    /\ \A j1, j2 \in DOMAIN comp.defs :
          j1 # j2 => comp.defs[j1] # comp.defs[j2]
    /\ ReturnedOk =>
          \A k \in DOMAIN instructions :
              LET t     == template(instructions[k], comp.chip8_labels).items
                  start == comp.labels[c8_label(instructions[k].addr)]
                  end   == comp.labels[FollowingLabel(k)]
              IN  \A j \in DOMAIN t :
                      (t[j].k = "ref" /\ t[j].v \in LocalDefs(t)) =>
                          LET p      == start + EmittedSize(SubSeq(t, 1, j - 1))
                              target == result.image[p + 1] + 256 * result.image[p + 2]
                          IN  start <= target /\ target <= end

(***************************************************************************)
(* C10.  CALL/RET round trip: when the translation of a 2NNN at address A  *)
(* has run with CHIP-8 SP = s and the subroutine then runs a 00EE with no  *)
(* CALL or RET in between, the Z80 RET that closes the 00EE translation    *)
(* continues at the translation of A+2 (label c8_(A+2)) and the CHIP-8 SP  *)
(* byte at 0x8012 is s again.                                              *)
(***************************************************************************)
C10_CallRetRoundTrip ==
    chip8_call.returned =>
        /\ cpu.pc = comp.labels[c8_label(chip8_call.ret)]
        /\ mem_read(result.image, cpu, CHIP8_SP) = chip8_call.sp

(***************************************************************************)
(* C11.  In every successful compile whose emitted code fits in 32768      *)
(* bytes, the image bytes from the offset of chip8_rom_data on are the     *)
(* input ROM byte for byte (bytes after the self-jump and a trailing odd   *)
(* byte included), they are the last emitted bytes, and every image byte   *)
(* after them is zero.                                                     *)
(***************************************************************************)
C11_EmbeddedRom ==
    (ReturnedOk /\ Len(comp.code) <= IMAGE_SIZE) =>
        LET o == comp.labels["chip8_rom_data"]
        IN  /\ \A j \in 1..Len(rom) : result.image[o + j] = rom[j]
            /\ o + Len(rom) = Len(comp.code)
            /\ \A j \in (o + Len(rom) + 1)..IMAGE_SIZE : result.image[j] = 0

\* an Ok return for a ROM of odd length with bytes after its self-jump
C11_Witness ==
    /\ ReturnedOk /\ Len(comp.code) <= IMAGE_SIZE
    /\ Len(rom) % 2 = 1
    /\ Len(rom) > 2 * Len(instructions) + 1
    /\ instructions # <<>>
    /\ rom[Len(rom)] # 0

(***************************************************************************)
(* C12.  The instruction at label main is a JP: its patched target is the  *)
(* offset of c8_200 when the instruction stream is not empty and the       *)
(* offset of halt when it is empty (ROM of length 0 or 1); in both cases   *)
(* the target name is a defined label.                                     *)
(***************************************************************************)
MainTarget ==
    LET o == comp.labels["main"]
    IN  result.image[o + 2] + 256 * result.image[o + 3]

C12_MainJump ==
    ReturnedOk =>
        LET name == IF instructions # <<>> THEN c8_label(CHIP8_BASE) ELSE "halt"
        IN  /\ result.image[comp.labels["main"] + 1] = 195
            /\ name \in DOMAIN comp.labels
            /\ MainTarget = comp.labels[name]
            /\ (instructions = <<>>) = (Len(rom) \in {0, 1})

\* an Ok return for the ROM of length 1: the stream is empty
C12_Witness == ReturnedOk /\ Len(rom) = 1 /\ instructions = <<>>

(***************************************************************************)
(* C19.  For each skip opcode at address A (3XNN, 4XNN, 5XY0, 9XY0, EX9E,  *)
(* EXA1): when A+4 is the address of a scanned instruction the translation *)
(* is the compare followed by one conditional JP (JP Z for SE and SKP,     *)
(* JP NZ for SNE and SKNP) whose patched target is the offset of           *)
(* c8_(A+4); when A+4 is not scanned the translation is the compare alone, *)
(* without a branch, and compile still returns Ok.                         *)
(***************************************************************************)
\* the conditional JP of a skip opcode (0xCA = JP Z, 0xC2 = JP NZ), 0 for
\* every other opcode
SkipJp(inst) ==
    LET ns == nibbles(inst)
    IN  IF ns[1] = 3 THEN 202
        ELSE IF ns[1] = 4 THEN 194
        ELSE IF ns[1] = 5 /\ ns[4] = 0 THEN 202
        ELSE IF ns[1] = 9 /\ ns[4] = 0 THEN 194
        ELSE IF ns[1] = 14 /\ ns[3] = 9 /\ ns[4] = 14 THEN 202
        ELSE IF ns[1] = 14 /\ ns[3] = 10 /\ ns[4] = 1 THEN 194
        ELSE 0

\* size of the compare, and its last byte: CP n ends with n, CP (HL) is 0xBE
CompareSize(inst) == IF OpClass(inst) \in {3, 4} THEN 5 ELSE 7
CompareEnd(inst) == IF OpClass(inst) \in {3, 4} THEN nn(inst) ELSE 190

SkipTargetScanned(inst) == inst.addr + 4 \in ScannedAddrs

C19_SkipBranch ==
    /\ ReturnedOk =>
        \A k \in DOMAIN instructions :
            LET inst == instructions[k]
                lo   == comp.labels[c8_label(inst.addr)]
                hi   == comp.labels[FollowingLabel(k)]
            IN  SkipJp(inst) # 0 =>
                  IF SkipTargetScanned(inst)
                  THEN /\ hi - lo = CompareSize(inst) + 3
                       /\ result.image[hi - 3] = CompareEnd(inst)
                       /\ result.image[hi - 2] = SkipJp(inst)
                       /\ result.image[hi - 1] + 256 * result.image[hi]
                              = comp.labels[c8_label(inst.addr + 4)]
                  ELSE /\ hi - lo = CompareSize(inst)
                       /\ result.image[hi] = CompareEnd(inst)
    /\ (Returned /\ BranchTargetsScanned) => ReturnedOk

\* an Ok return for a ROM with a SKP whose skip target is scanned and one
\* whose skip target is not
C19_Witness ==
    /\ ReturnedOk
    /\ \E k \in DOMAIN instructions :
          SkipJp(instructions[k]) = 202 /\ OpClass(instructions[k]) = 14
          /\ SkipTargetScanned(instructions[k])
    /\ \E k \in DOMAIN instructions :
          SkipJp(instructions[k]) = 202 /\ OpClass(instructions[k]) = 14
          /\ ~SkipTargetScanned(instructions[k])

(***************************************************************************)
(* C13.  The 16-bit state of the rng routine (low byte at 0x8016, high     *)
(* byte at 0x8017), updated once per call from the seed init stores (0xAC, *)
(* 0xE1), never becomes 0 and does not come back to the seed before all    *)
(* 65535 nonzero states have been visited.  The state is read each time    *)
(* the program RND V0,FF; JP 200 is at its first instruction (the first    *)
(* time after one machine instruction, the JP at main).                    *)
(***************************************************************************)
RngState(m) == Mem16(m, CHIP8_RNG)
\* the seed init stores: 0xAC at 0x8016, 0xE1 at 0x8017 (codegen.rs:154-158)
RngSeed == 172 + 256 * 225
BetweenRngCalls == rom = RngRom /\ cpu.pc = Label(c8_label(CHIP8_BASE))

C13_RngFullPeriod ==
    BetweenRngCalls =>
        /\ RngState(cpu) # 0
        /\ cpu.t = 1 => RngState(cpu) = RngSeed
        /\ cpu.t \in 2..65534 => RngState(cpu) # RngSeed

(***************************************************************************)
(* C17.  End-to-end BCD scenario: the image compiled from ROM              *)
(* 60 EA A3 00 F0 33 12 06 (V0 = 234, I = 0x300, FX33), run from reset,    *)
(* parks at the self-jump at 0x206 with the bytes at CHIP8_RAM + 0, + 1    *)
(* and + 2 (CHIP8_RAM = 0x8400) holding 2, 3 and 4.                        *)
(***************************************************************************)
\* the machine is at the JP of 0x206, which jumps to itself
BcdParked ==
    /\ rom = BcdRom
    /\ cpu.pc = Label(c8_label(CHIP8_BASE + 6))
    /\ cpu.status = "run"
    /\ Mem(cpu, cpu.pc) = 195
    /\ Mem16(cpu, cpu.pc + 1) = cpu.pc

DigitsAt(m, addr) == <<Mem(m, addr), Mem(m, addr + 1), Mem(m, addr + 2)>>

C17_BcdScenario ==
    (rom = BcdRom /\ cpu.pc = Label(c8_label(CHIP8_BASE + 6))) =>
        BcdParked /\ DigitsAt(cpu, CHIP8_RAM) = <<2, 3, 4>>

(***************************************************************************)
(* C17 as amended: the digits 2, 3, 4 are at CHIP8_RAM + (I - 0x200) =     *)
(* 0x8500, 0x8501, 0x8502, the three bytes at CHIP8_RAM + 0 keep their     *)
(* power-on contents, V0 = 234 and I = 0x300.                              *)
(***************************************************************************)
C17_BcdScenarioAmended ==
    (rom = BcdRom /\ cpu.pc = Label(c8_label(CHIP8_BASE + 6))) =>
        /\ BcdParked
        /\ DigitsAt(cpu, CHIP8_RAM + 256) = <<2, 3, 4>>
        /\ DigitsAt(cpu, CHIP8_RAM) = <<cpu.fill, cpu.fill, cpu.fill>>
        /\ Mem(cpu, CHIP8_V0) = 234
        /\ Mem16(cpu, CHIP8_I) = 768

\* the program has gone round its self-jump with a power-on byte that is
\* none of the digits
C17_Witness ==
    /\ BcdParked
    /\ cpu.fill = 255
    /\ Mem(cpu, CHIP8_RAM + 258) = 4
    /\ cpu.t > 60

(***************************************************************************)
(* C14.  get_key with a byte ready (bit 0 of the ACIA status set) reads    *)
(* the data port once and, for each of the 256 bytes ch it can receive,    *)
(* returns ch - '0' for '0'..'9', 10..15 for 'a'..'f' and for 'A'..'F',    *)
(* and 0xFF for every other byte; with no byte ready it returns A = 0      *)
(* without reading the data port.                                          *)
(***************************************************************************)
KeyOf(ch) ==
    IF ch \in 48..57 THEN ch - 48
    ELSE IF ch \in 97..102 THEN ch - 97 + 10
    ELSE IF ch \in 65..70 THEN ch - 65 + 10
    ELSE 255

\* the call has returned to its caller with the Z80 stack as it found it
RoutineReturned ==
    job.done /\ cpu.pc = job.stop /\ cpu.sp = 0 /\ cpu.status = "run"

C14_GetKey ==
    (job.kind = "get_key" /\ job.done) =>
        /\ RoutineReturned
        /\ job.reads # <<>>
        /\ job.reads[1][1] = ACIA_CTRL
        /\ IF job.reads[1][2] % 2 = 1
           THEN /\ Len(job.reads) = 2
                /\ job.reads[2][1] = ACIA_DATA
                /\ cpu.a = KeyOf(job.reads[2][2])
           ELSE /\ Len(job.reads) = 1
                /\ cpu.a = 0

\* get_key has returned 15 for the byte 'f'
C14_Witness ==
    /\ job.kind = "get_key" /\ job.done
    /\ Len(job.reads) = 2
    /\ job.reads[2] = <<ACIA_DATA, 102>>
    /\ cpu.a = 15

(***************************************************************************)
(* C15.  For the values Vx and Vy hold when the translation of an 8XY4,    *)
(* 8XY5, 8XY6, 8XY7 or 8XYE starts, when it has run VF holds the flag and, *)
(* unless x = F, Vx holds the 8-bit result: 8XY4 Vx + Vy, VF = 1 iff the   *)
(* sum exceeds 255; 8XY5 Vx - Vy, VF = 1 iff Vx >= Vy; 8XY7 Vy - Vx,       *)
(* VF = 1 iff Vy >= Vx; 8XY6 Vx >> 1, VF = old bit 0 of Vx; 8XYE           *)
(* (Vx << 1) mod 256, VF = old bit 7 of Vx.  With x = F the flag is what   *)
(* remains in VF.  No other V register changes.                            *)
(***************************************************************************)
Flag(cnd) == IF cnd THEN 1 ELSE 0
AluResult(op, a, b) ==
    CASE op = 4  -> [v |-> (a + b) % 256,       vf |-> Flag(a + b > 255)]
      [] op = 5  -> [v |-> (a - b + 256) % 256, vf |-> Flag(a >= b)]
      [] op = 6  -> [v |-> a \div 2,            vf |-> a % 2]
      [] op = 7  -> [v |-> (b - a + 256) % 256, vf |-> Flag(b >= a)]
      [] op = 14 -> [v |-> (2 * a) % 256,       vf |-> a \div 128]

\* the translation at 0x200 has run: control is at c8_202, stack balanced
TemplateRan ==
    job.kind = "template" /\ job.done /\ cpu.pc = job.stop /\ cpu.sp = 0
    /\ cpu.status = "run"

IsAlu(inst) == OpClass(inst) = 8 /\ n(inst) \in {4, 5, 6, 7, 14}

C15_AluFlags ==
    (job.kind = "template" /\ IsAlu(instructions[1]) /\ job.done) =>
        LET inst == instructions[1]
            r    == AluResult(n(inst), Mem(job.m0, CHIP8_V0 + x(inst)),
                                       Mem(job.m0, CHIP8_V0 + y(inst)))
        IN  /\ TemplateRan
            /\ Mem(cpu, CHIP8_V0 + 15) = r.vf
            /\ x(inst) # 15 => Mem(cpu, CHIP8_V0 + x(inst)) = r.v
            /\ \A k \in 0..14 :
                  k # x(inst) => Mem(cpu, CHIP8_V0 + k) = Mem(job.m0, CHIP8_V0 + k)

\* 8F15 has run with VF < V1: VF holds the flag 0, not the difference
C15_Witness ==
    /\ job.kind = "template" /\ job.done
    /\ instructions[1].opcode = 36629
    /\ Mem(job.m0, CHIP8_V0 + 15) = 1
    /\ Mem(job.m0, CHIP8_V0 + 1) = 128
    /\ Mem(cpu, CHIP8_V0 + 15) = 0

(***************************************************************************)
(* C16.  For the values Vx and I hold when the translation of FX33 starts, *)
(* when it has run the three bytes at CHIP8_RAM + (I - 0x200), + 1 and + 2 *)
(* hold floor(Vx / 100), floor(Vx / 10) mod 10 and Vx mod 10, and Vx and I *)
(* are unchanged; both subtraction loops terminate: the translation has    *)
(* run before the machine has executed 100 instructions.                   *)
(***************************************************************************)
IsBcd(inst) == OpClass(inst) = 15 /\ nn(inst) = 51

C16_Bcd ==
    (job.kind = "template" /\ IsBcd(instructions[1])) =>
        LET inst == instructions[1]
            v    == Mem(job.m0, CHIP8_V0 + x(inst))
            iv   == Mem16(job.m0, CHIP8_I)
        IN  /\ ~job.done => cpu.status = "run" /\ cpu.t < 100
            /\ job.done =>
                  /\ TemplateRan
                  /\ DigitsAt(cpu, U16(CHIP8_RAM + iv - 512))
                        = <<v \div 100, (v \div 10) % 10, v % 10>>
                  /\ Mem(cpu, CHIP8_V0 + x(inst)) = v
                  /\ Mem16(cpu, CHIP8_I) = iv

\* F533 has run with V5 = 199 and I = 0xFFF
C16_Witness ==
    /\ job.kind = "template" /\ job.done
    /\ instructions[1].opcode = 62771
    /\ Mem(job.m0, CHIP8_V0 + 5) = 199
    /\ Mem16(job.m0, CHIP8_I) = 4095
    /\ DigitsAt(cpu, CHIP8_RAM + 4095 - 512) = <<1, 9, 9>>

(***************************************************************************)
(* C18.  When the translation of 00EE has run, the CHIP-8 SP byte at       *)
(* 0x8012 is one less than before, control is at the 16-bit little-endian  *)
(* value stored at CHIP8_STACK + 2 * (new SP), and no other CHIP-8 state   *)
(* byte has been written: the registers V0..VF, I at 0x8010-0x8011, the    *)
(* timers, the key byte, the rng state and the CHIP-8 stack are unchanged. *)
(***************************************************************************)
Chip8State == (CHIP8_V0..(CHIP8_V0 + 31)) \cup (CHIP8_STACK..(CHIP8_STACK + 31))

C18_RetFrame ==
    (job.kind = "template" /\ instructions[1].opcode = 238 /\ job.done) =>
        LET sp1 == (Mem(job.m0, CHIP8_SP) + 255) % 256
        IN  /\ cpu.status = "run"
            /\ Mem(cpu, CHIP8_SP) = sp1
            /\ cpu.pc = Mem16(job.m0, CHIP8_STACK + 2 * sp1)
            /\ \A addr \in Chip8State \ {CHIP8_SP} :
                  Mem(cpu, addr) = Mem(job.m0, addr)

(***************************************************************************)
(* C20.  draw_sprite called with DE = screen pointer, HL = sprite pointer  *)
(* and B = rows (1..15): when it returns, for each row r < B the byte at   *)
(* DE + 8r is its old value XOR the sprite byte at HL + r, no other screen *)
(* byte has changed, and A = 1 if the old byte AND the sprite byte is      *)
(* nonzero for some row r < B, otherwise A = 0.                            *)
(***************************************************************************)
Screen == DISPLAY_BUF..(DISPLAY_BUF + 255)

C20_DrawSprite ==
    (job.kind = "draw_sprite" /\ job.done) =>
        LET de     == DE(job.m0)
            hl     == HL(job.m0)
            rows   == 0..(job.m0.b - 1)
            old(r) == Mem(job.m0, de + 8 * r)
            spr(r) == Mem(job.m0, hl + r)
        IN  /\ RoutineReturned
            /\ \A r \in rows : Mem(cpu, de + 8 * r) = bits("xor", old(r), spr(r), 8)
            /\ \A addr \in Screen \ {de + 8 * r : r \in rows} :
                  Mem(cpu, addr) = Mem(job.m0, addr)
            /\ cpu.a = Flag(\E r \in rows : bits("and", old(r), spr(r), 8) # 0)

\* a call of three rows has returned 1 for a collision in its first row only
C20_Witness ==
    /\ job.kind = "draw_sprite" /\ job.done
    /\ job.m0.b = 3
    /\ Mem(job.m0, DE(job.m0)) = 144
    /\ Mem(job.m0, HL(job.m0)) = 240
    /\ Mem(cpu, DE(job.m0)) = 96
    /\ Mem(cpu, DE(job.m0) + 16) = 240
    /\ cpu.a = 1

(***************************************************************************)
(* C23.  The fixup step that succeeds changes the code only at the two     *)
(* placeholder bytes of each recorded forward reference (offset o, name    *)
(* n): afterwards the byte at o is labels[n] AND 0xFF and the byte at o+1  *)
(* is labels[n] >> 8 (the little-endian absolute offset), every other byte *)
(* and the length are as before, and the returned image holds the same     *)
(* two bytes at o and o+1.                                                 *)
(***************************************************************************)
Placeholders(refs) ==
    {refs[j][1] + 1 : j \in DOMAIN refs} \cup {refs[j][1] + 2 : j \in DOMAIN refs}

C23_Fixup ==
    /\ [][(at = "resolve" /\ at' = "image") =>
            /\ Len(comp'.code) = Len(comp.code)
            /\ comp'.forward_refs = comp.forward_refs
            /\ comp'.labels = comp.labels
            /\ \A j \in DOMAIN comp.forward_refs :
                  LET o == comp.forward_refs[j][1]
                      t == comp.labels[comp.forward_refs[j][2]]
                  IN  /\ comp.code[o + 1] = 0 /\ comp.code[o + 2] = 0
                      /\ comp'.code[o + 1] = t % 256
                      /\ comp'.code[o + 2] = t \div 256
            /\ \A k \in DOMAIN comp.code \ Placeholders(comp.forward_refs) :
                  comp'.code[k] = comp.code[k]]_vars
    /\ [](ReturnedOk =>
            \A j \in DOMAIN comp.forward_refs :
                LET o == comp.forward_refs[j][1]
                    t == comp.labels[comp.forward_refs[j][2]]
                IN  o + 2 <= IMAGE_SIZE =>
                       /\ result.image[o + 1] = t % 256
                       /\ result.image[o + 2] = t \div 256)

\* fixup has succeeded with a reference to an instruction label whose offset
\* does not fit in one byte
C23_Witness ==
    /\ at = "image"
    /\ \E j \in DOMAIN comp.forward_refs :
          /\ comp.forward_refs[j][2] = c8_label(CHIP8_BASE + 2)
          /\ comp.labels[comp.forward_refs[j][2]] > 255
          /\ comp.code[comp.forward_refs[j][1] + 1] # 0

(***************************************************************************)
(* C21.  When the translation of FX55 has run, the x+1 bytes starting at   *)
(* CHIP8_RAM + (I - 0x200) hold V0..Vx and nothing else in RAM has         *)
(* changed; when the translation of FX65 has run, V0..Vx hold those x+1    *)
(* bytes and nothing else in RAM has changed (I and the registers above Vx *)
(* included); when FX55 followed by FX65 with the same x has run, V0..VF   *)
(* and I are as before.                                                    *)
(***************************************************************************)
IsStore(inst) == OpClass(inst) = 15 /\ nn(inst) = 85
IsLoad(inst) == OpClass(inst) = 15 /\ nn(inst) = 101

\* every RAM byte outside the set keep reads as it did when the job started
RamKept(keep) ==
    \A a \in (DOMAIN cpu.ram \cup DOMAIN job.m0.ram) \ keep :
        Mem(cpu, a) = Mem(job.m0, a)

C21_StoreLoad ==
    (job.kind = "template" /\ job.done
        /\ (IsStore(instructions[1]) \/ IsLoad(instructions[1]))) =>
        LET inst == instructions[1]
            xv   == x(inst)
            dst  == U16(CHIP8_RAM - 512 + Mem16(job.m0, CHIP8_I))
            to   == dst..(dst + xv)
            vs   == CHIP8_V0..(CHIP8_V0 + xv)
        IN  /\ TemplateRan
            /\ (Len(instructions) = 2 /\ IsStore(inst)) =>
                  /\ \A k \in 0..xv : Mem(cpu, dst + k) = Mem(job.m0, CHIP8_V0 + k)
                  /\ RamKept(to)
            /\ (Len(instructions) = 2 /\ IsLoad(inst)) =>
                  /\ \A k \in 0..xv : Mem(cpu, CHIP8_V0 + k) = Mem(job.m0, dst + k)
                  /\ RamKept(vs)
            /\ (Len(instructions) = 3 /\ IsStore(inst)) =>
                  /\ IsLoad(instructions[2]) /\ x(instructions[2]) = xv
                  /\ \A k \in 0..xv : Mem(cpu, dst + k) = Mem(job.m0, CHIP8_V0 + k)
                  /\ RamKept(to)

\* F755 then F765 have run with I = 0x300: the bytes at CHIP8_RAM + 0x100
\* were overwritten with V0..V7 and V0..V7 read back as before
C21_Witness ==
    /\ job.kind = "template" /\ job.done
    /\ Len(instructions) = 3
    /\ instructions[1].opcode = 61525 + 256 * 7
    /\ instructions[2].opcode = 61541 + 256 * 7
    /\ Mem16(job.m0, CHIP8_I) = 768
    /\ Mem(job.m0, CHIP8_RAM + 256 + 7) # Mem(job.m0, CHIP8_V0 + 7)
    /\ Mem(cpu, CHIP8_RAM + 256 + 7) = Mem(job.m0, CHIP8_V0 + 7)
    /\ \A k \in 0..15 : Mem(cpu, CHIP8_V0 + k) = Mem(job.m0, CHIP8_V0 + k)

(***************************************************************************)
(* C22.  For every value of Vx, when the translation of FX29 has run I     *)
(* holds 5 * (Vx AND 0x0F), which is below 0x50, and the DXYN that follows *)
(* calls draw_sprite with that I and the sprite pointer FONT_DATA + I; a   *)
(* DXYN entered with I < 0x50 calls draw_sprite with the sprite pointer    *)
(* FONT_DATA + I, one entered with I >= 0x50 with the sprite pointer       *)
(* chip8_rom_data + (I - 0x200), the sum taken in 16 bits.                 *)
(***************************************************************************)
IsFont(inst) == OpClass(inst) = 15 /\ nn(inst) = 41

C22_FontDispatch ==
    /\ (job.kind = "template" /\ IsFont(instructions[1])) =>
          LET iv == 5 * (Mem(job.m0, CHIP8_V0 + x(instructions[1])) % 16)
          IN  /\ iv < 80
              /\ cpu.pc = Label(c8_label(CHIP8_BASE + 2)) => Mem16(cpu, CHIP8_I) = iv
              /\ cpu.pc = Label("draw_sprite") =>
                    /\ Mem16(cpu, CHIP8_I) = iv
                    /\ HL(cpu) = FONT_DATA + iv
              /\ job.done => cpu.status = "run" /\ cpu.sp = 65534
    /\ (job.kind = "template" /\ OpClass(instructions[1]) = 13) =>
          LET iv == Mem16(job.m0, CHIP8_I)
          IN  /\ cpu.pc = Label("draw_sprite") =>
                    HL(cpu) = IF iv < 80 THEN FONT_DATA + iv
                              ELSE U16(Label("chip8_rom_data") + iv - 512 + 65536)
              /\ job.done => cpu.status = "run" /\ cpu.sp = 65534

\* FA29 then DAB1 with VA = 0xFF: draw_sprite is entered with I = 0x4B and
\* the sprite pointer FONT_DATA + 0x4B
C22_Witness ==
    /\ job.kind = "template"
    /\ instructions[1].opcode = 64041
    /\ Mem(job.m0, CHIP8_V0 + 10) = 255
    /\ cpu.pc = Label("draw_sprite")
    /\ Mem16(cpu, CHIP8_I) = 75
    /\ HL(cpu) = FONT_DATA + 75

(***************************************************************************)
(* C24.  The translation of FX0A leaves Vx as it was until it has run, and *)
(* it has run only after a read of the ACIA data port gave a character     *)
(* that maps to a hex key: the last port read is that data read and Vx     *)
(* holds the key code 0..15 of the character read.  A status read that     *)
(* says no byte is ready is therefore followed by another poll, never by   *)
(* the store.                                                              *)
(***************************************************************************)
IsWaitKey(inst) == OpClass(inst) = 15 /\ nn(inst) = 10

C24_WaitKey ==
    (job.kind = "template" /\ IsWaitKey(instructions[1])) =>
        LET vx == CHIP8_V0 + x(instructions[1])
        IN  /\ ~job.done => Mem(cpu, vx) = Mem(job.m0, vx)
            /\ job.done =>
                  /\ job.reads # <<>>
                  /\ LET last == job.reads[Len(job.reads)]
                     IN  /\ last[1] = ACIA_DATA
                         /\ KeyOf(last[2]) \in 0..15
                         /\ Mem(cpu, vx) = KeyOf(last[2])

(***************************************************************************)
(* C25.  While the translation of DXYN runs, every RAM byte it stores to,  *)
(* apart from VF and the Z80 stack, lies in the display bitmap             *)
(* 0x8200..0x82FF, so the font bitmap at 0x8300..0x834F is never stored    *)
(* to; when draw_sprite has returned and VF is stored, exactly N bytes     *)
(* have been stored to and every other RAM byte is as before.              *)
(***************************************************************************)
Z80Stack == 65520..65535
FontBitmap == FONT_DATA..(FONT_DATA + 79)

\* the RAM bytes stored to since the unit started (the job's RAM holds only
\* registers and I at the start)
Written == ((DOMAIN cpu.ram \ DOMAIN job.m0.ram) \ Z80Stack) \ {CHIP8_V0 + 15}

C25_DrawInDisplay ==
    (job.kind = "template" /\ OpClass(instructions[1]) = 13) =>
        /\ Written \subseteq Screen
        /\ Written \cap FontBitmap = {}
        /\ job.done =>
              /\ Cardinality(Written) = n(instructions[1])
              /\ RamKept(Written \cup Z80Stack \cup {CHIP8_V0 + 15})

====
